---- MODULE Spec2Model ----
(***************************************************************************)
(* Persistence core of the Spark pod resource monitor:                     *)
(*   modules/performance.py  DatabaseConnectionPool                        *)
(*   modules/database.py     HistoryManager                                *)
(*   modules/validation.py   sanitize_pod_name                             *)
(*                                                                         *)
(* The engine (SQLite, WAL journal) is modelled by what the code relies    *)
(* on: one write lock, a transaction's private working copy that COMMIT    *)
(* publishes and ROLLBACK discards, statements that are atomic, and a      *)
(* handle whose isolation_level is None running every statement in its     *)
(* own transaction (autocommit).  Time is counted in hours.                *)
(*                                                                         *)
(*   Spec      one caller within one instant, over two namespaces and two  *)
(*             pod names                                                   *)
(*   RetentionSpec  one caller while the store ages, over one namespace    *)
(*   ConcSpec  a poller and a UI thread interleaved statement by           *)
(*             statement, over a narrowed input domain                     *)
(*   PoolSpec  threads calling the pool's three methods directly           *)
(***************************************************************************)
EXTENDS Integers, Sequences, FiniteSets, TLC

(***************************************************************************)
(* Bounds of the model                                                     *)
(***************************************************************************)
\* configured maximum pool size (config.py reads it from the configuration)
max_connections == 2
\* snapshot rows ever inserted (values of the AUTOINCREMENT sequence)
MaxRows == 2
\* event rows ever inserted
MaxEvents == 1
\* longest batch handed to store_pod_data_batch
MaxBatch == 2

(***************************************************************************)
(* Program constants                                                       *)
(***************************************************************************)
MinRetentionDays == 1
MaxRetentionDays == 365
HoursPerDay == 24

\* LIMIT of the SELECT statements
HistoricalLimit == 10000
TimelineLimit == 5000
TimelineEventLimit == 1000
ExportLimit == 50000

Threads == {"poller", "ui"}
None == 0

AllCalls ==
    {"store_pod_data", "store_pod_data_batch", "mark_pods_inactive", "log_pod_event",
     "get_historical_data", "cleanup_old_data"}

(***************************************************************************)
(* Input domains.  Text is a sequence of one-character strings, so that    *)
(* strip() and replace() are computed, not assumed.                        *)
(***************************************************************************)
\* raw batch tuples: (pod_name, pod_type, app_name, cpu_req); the other columns play no part
GoodA == [name |-> <<"a">>, pod_type |-> "driver", app |-> <<>>, cpu_request |-> 1]
GoodB == [name |-> <<"b", ";">>, pod_type |-> "executor", app |-> <<>>, cpu_request |-> 1]
NoType == [name |-> <<"a", " ">>, pod_type |-> "", app |-> <<>>, cpu_request |-> 1]
NoName == [name |-> <<>>, pod_type |-> "driver", app |-> <<>>, cpu_request |-> 1]

\* float('nan'): the float that float() of lines 175 and 216 lets through and
\* that is no number.  Numbers are integers here, so it is a value of its own
\* that no request takes; sqlite3 binds it as NULL, and the column then holds NULL.
NaN == -999

NegCpu == [name |-> <<"a">>, pod_type |-> "driver", app |-> <<>>, cpu_request |-> -1]
NanCpu == [name |-> <<"a">>, pod_type |-> "driver", app |-> <<>>, cpu_request |-> NaN]

\* the instants the clock passes through (hours since construction)
Instants == <<0, 30, 9000>>

\* what a lone caller passes within one instant (Spec): two namespaces and two
\* pod names, so that a statement has rows to touch and rows to leave alone
Wide ==
    [namespaces |-> { <<"p">>, <<"q", " ">> },
     names |-> { <<"a">>, <<"b", ";">>, <<>> },
     pods |-> { <<"a">>, <<>> },
     cpus |-> {1, -1},
     apps |-> { <<>> },
     filters |-> { <<>> },
     journals |-> {"wal"},
     more |-> 0,
     items |-> {GoodA, GoodB, NoType},
     hours |-> {24},
     days |-> {1},
     instants |-> 1,
     offsets |-> {0},
     calls |-> [t \in Threads |-> AllCalls]]

\* what a lone caller passes while the store ages (RetentionSpec): every
\* instant and every kind of retention argument, one namespace, on a host whose
\* local time is five hours behind UTC
Aged ==
    [namespaces |-> { <<"p">> },
     names |-> { <<"a">> },
     pods |-> { <<"a">> },
     cpus |-> {1},
     apps |-> { <<>> },
     filters |-> { <<>> },
     journals |-> {"wal"},
     more |-> 0,
     items |-> {GoodA, NoType},
     hours |-> {24},
     days |-> {-5, 1, 9999},
     instants |-> Len(Instants),
     offsets |-> {-5},
     calls |-> [t \in Threads |-> AllCalls]]

\* what the two interleaved threads pass (ConcSpec): the poller writes, the UI
\* thread reads and runs maintenance
Narrow ==
    [namespaces |-> { <<"p">> },
     names |-> { <<"a">> },
     pods |-> { <<"a">> },
     cpus |-> {1},
     apps |-> { <<>> },
     filters |-> { <<>> },
     journals |-> {"wal"},
     more |-> 0,
     items |-> {GoodA, NoType, NoName},
     hours |-> {24},
     days |-> {1},
     instants |-> 2,
     offsets |-> {0},
     calls |-> [t \in Threads |->
                  IF t = "poller"
                  THEN {"store_pod_data", "store_pod_data_batch", "mark_pods_inactive",
                        "log_pod_event"}
                  ELSE {"get_historical_data", "cleanup_old_data"}]]

\* what a poller and a maintenance thread pass (UpkeepSpec): single inserts and
\* events against cleanups
Upkeep ==
    [namespaces |-> { <<"p">> },
     names |-> { <<"a">> },
     pods |-> { <<"a">> },
     cpus |-> {1},
     apps |-> { <<>> },
     filters |-> { <<>> },
     journals |-> {"wal"},
     more |-> 0,
     items |-> {GoodA},
     hours |-> {24},
     days |-> {1},
     instants |-> 2,
     offsets |-> {0},
     calls |-> [t \in Threads |->
                  IF t = "poller"
                  THEN {"store_pod_data", "log_pod_event"}
                  ELSE {"cleanup_old_data"}]]

\* a start or end argument of export_historical_data: a bare date (a string of
\* length 10) names a day, anything else an instant written as the store writes it
BareDate(day) == [bare |-> TRUE, v |-> day]
DateTime(hour) == [bare |-> FALSE, v |-> hour]

\* an item with an app_name of its own
WithApp == [name |-> <<"a">>, pod_type |-> "driver", app |-> <<"x">>, cpu_request |-> 1]

\* what a lone caller passes on a host eight hours ahead of UTC (QuerySpec):
\* rows with and without an app_name, rows the CHECK constraints refuse, reads
\* with and without the app_name filter, export formats known and unknown
Asked ==
    [namespaces |-> { <<"p">>, <<"q", " ">> },
     names |-> { <<"a">> },
     pods |-> { <<"a">> },
     cpus |-> {1, -1},
     apps |-> { <<>>, <<"x">> },
     filters |-> { <<>>, <<"x", " ">> },
     journals |-> {"wal"},
     more |-> 0,
     items |-> {GoodA, WithApp, NoType},
     hours |-> {24},
     days |-> {1},
     instants |-> 2,
     offsets |-> {8},
     starts |-> {BareDate(0)},
     ends |-> {BareDate(1)},
     formats |-> { <<"j", "s", "o", "n">>, <<" ", "C", "S", "V">>, <<"x", "m", "l">> },
     calls |-> [t \in Threads |-> AllCalls]]

\* what a lone caller passes to an engine that may fail (FaultSpec), on a store
\* file that took the write-ahead log and on one that did not
Faulty ==
    [namespaces |-> { <<"p">> },
     names |-> { <<"a">> },
     pods |-> { <<"a">> },
     cpus |-> {1},
     apps |-> { <<>> },
     filters |-> { <<>> },
     journals |-> {"wal", "delete"},
     more |-> 0,
     items |-> {GoodA},
     hours |-> {24},
     days |-> {1},
     instants |-> 1,
     offsets |-> {0},
     starts |-> {BareDate(0)},
     ends |-> {BareDate(0)},
     formats |-> { <<"j", "s", "o", "n">> },
     calls |-> [t \in Threads |-> AllCalls]]

\* what a lone caller passes before it reads back (ExportSpec, ListSpec,
\* RestartSpec): two namespaces and two pod names over three instants, date
\* ranges given as bare dates and as instants
Browsed ==
    [namespaces |-> { <<"p">>, <<"q", " ">> },
     names |-> { <<"a">> },
     pods |-> { <<"a">>, <<"b", ";">> },
     cpus |-> {1},
     apps |-> { <<>> },
     filters |-> { <<>> },
     journals |-> {"wal"},
     more |-> 0,
     items |-> {GoodA, GoodB},
     hours |-> {24},
     days |-> {1},
     instants |-> Len(Instants),
     offsets |-> {0},
     starts |-> {BareDate(0), BareDate(1)},
     ends |-> {BareDate(1), DateTime(30)},
     formats |-> { <<"j", "s", "o", "n">>, <<" ", "C", "S", "V">> },
     calls |-> [t \in Threads |-> AllCalls]]

\* what one caller passes over the life of a pod (LifecycleSpec): the pod is
\* stored, alone or in a batch, deactivated, stored again, and cleaned up a day on
Lifecycle ==
    [namespaces |-> { <<"p">> },
     names |-> { <<"a">> },
     pods |-> { <<"a">> },
     cpus |-> {1},
     apps |-> { <<>> },
     filters |-> { <<>> },
     journals |-> {"wal"},
     more |-> 0,
     items |-> {GoodA, NoType},
     hours |-> {24},
     days |-> {1},
     instants |-> 2,
     offsets |-> {0},
     calls |-> [t \in Threads |->
                  {"store_pod_data", "store_pod_data_batch", "mark_pods_inactive",
                   "cleanup_old_data"}]]

\* what a caller passes on an engine whose statements, commits and rollbacks
\* may fail (HandleSpec): writes, a read and maintenance on one pod
Handled ==
    [namespaces |-> { <<"p">> },
     names |-> { <<"a">> },
     pods |-> { <<"a">> },
     cpus |-> {1},
     apps |-> { <<>> },
     filters |-> { <<>> },
     journals |-> {"wal"},
     more |-> 0,
     items |-> {GoodA, NoType},
     hours |-> {24},
     days |-> {1},
     instants |-> 1,
     offsets |-> {0},
     calls |-> [t \in Threads |->
                  {"store_pod_data_batch", "mark_pods_inactive",
                   "get_historical_data", "cleanup_old_data"}]]

\* what a caller passes that has validated nothing (ValueSpec): requests that
\* are negative or no number, tuples without a pod_type
Valued ==
    [namespaces |-> { <<"p">> },
     names |-> { <<"a">> },
     pods |-> { <<"a">> },
     cpus |-> {1, -1, NaN},
     apps |-> { <<>> },
     filters |-> { <<>> },
     journals |-> {"wal"},
     more |-> 0,
     items |-> {GoodA, NoType, NegCpu, NanCpu},
     hours |-> {24},
     days |-> {1},
     instants |-> 1,
     offsets |-> {0},
     calls |-> [t \in Threads |-> {"store_pod_data", "store_pod_data_batch"}]]

\* what two callers pass while the manager is being closed (CloseSpec)
Shut ==
    [namespaces |-> { <<"p">> },
     names |-> { <<"a">> },
     pods |-> { <<"a">> },
     cpus |-> {1},
     apps |-> { <<>> },
     filters |-> { <<>> },
     journals |-> {"wal"},
     more |-> 0,
     items |-> {GoodA},
     hours |-> {24},
     days |-> {1},
     instants |-> 1,
     offsets |-> {0},
     calls |-> [t \in Threads |-> {"store_pod_data"}]]

\* what two sessions that render the status page pass (PollSpec): each round
\* observed none, one or both of two pods of one namespace
Polled ==
    [namespaces |-> { <<"p">> },
     names |-> { <<"a">>, <<"b">> },
     pods |-> { <<"a">>, <<"b">> },
     observed |-> { <<>>, << <<"a">> >>, << <<"b">> >>, << <<"a">>, <<"b">> >> },
     cpus |-> {1},
     apps |-> { <<>> },
     filters |-> { <<>> },
     journals |-> {"wal"},
     more |-> 0,
     items |-> {GoodA},
     hours |-> {24},
     days |-> {1},
     instants |-> 1,
     offsets |-> {0},
     calls |-> [t \in Threads |-> {"store_pod_data_batch", "mark_pods_inactive"}]]

\* what a poller passes round after round (RoundSpec): batches of one and of two
\* tuples, some holding a tuple the engine refuses, on a host east of UTC or on UTC
Rounds ==
    [namespaces |-> { <<"p">> },
     names |-> { <<"a">> },
     pods |-> { <<"a">> },
     cpus |-> {1},
     apps |-> { <<>> },
     filters |-> { <<>> },
     journals |-> {"wal"},
     more |-> 1,
     items |-> {GoodA, GoodB, NoType},
     hours |-> {24},
     days |-> {1},
     instants |-> Len(Instants),
     offsets |-> {0, 8},
     starts |-> {BareDate(0)},
     ends |-> {BareDate(1)},
     formats |-> { <<"j", "s", "o", "n">> },
     calls |-> [t \in Threads |-> {"store_pod_data_batch"}]]

\* the same on a store that takes one row more (ListSpec), so that a pod name
\* can have an older and a newer row around the row of another name
Listing == [Browsed EXCEPT !.more = 1]

Whitespace == {" ", "\t", "\n"}

UpperCase == <<"A", "B", "C", "D", "E", "F", "G", "H", "I", "J", "K", "L", "M", "N", "O",
               "P", "Q", "R", "S", "T", "U", "V", "W", "X", "Y", "Z">>
LowerCase == <<"a", "b", "c", "d", "e", "f", "g", "h", "i", "j", "k", "l", "m", "n", "o",
               "p", "q", "r", "s", "t", "u", "v", "w", "x", "y", "z">>

\* str.lower()
Lower(s) ==
    [k \in 1..Len(s) |->
        IF \E i \in 1..Len(UpperCase) : UpperCase[i] = s[k]
        THEN LowerCase[CHOOSE i \in 1..Len(UpperCase) : UpperCase[i] = s[k]]
        ELSE s[k]]

\* line 443
ExportFormats == { <<"j", "s", "o", "n">>, <<"c", "s", "v">> }

Max(a, b) == IF a >= b THEN a ELSE b
Min(a, b) == IF a <= b THEN a ELSE b

(***************************************************************************)
(* validation.py                                                           *)
(***************************************************************************)
\* str.replace(pat, rep): left to right, non-overlapping
RECURSIVE Replace(_, _, _)
Replace(s, pat, rep) ==
    IF Len(s) < Len(pat) THEN s
    ELSE IF SubSeq(s, 1, Len(pat)) = pat
         THEN rep \o Replace(SubSeq(s, Len(pat) + 1, Len(s)), pat, rep)
         ELSE <<Head(s)>> \o Replace(Tail(s), pat, rep)

RECURSIVE LStrip(_)
LStrip(s) == IF s # <<>> /\ Head(s) \in Whitespace THEN LStrip(Tail(s)) ELSE s

RECURSIVE RStrip(_)
RStrip(s) ==
    IF s # <<>> /\ s[Len(s)] \in Whitespace
    THEN RStrip(SubSeq(s, 1, Len(s) - 1)) ELSE s

\* str.strip()
Strip(s) == LStrip(RStrip(s))

dangerous_chars ==
    << <<"'">>, <<"\"">>, <<";">>, <<"-", "-">>, <<"/", "*">>, <<"*", "/">>,
       <<"x", "p", "_">>, <<"s", "p", "_">> >>

RECURSIVE ReplaceDangerous(_, _)
ReplaceDangerous(s, i) ==
    IF i > Len(dangerous_chars) THEN s
    ELSE ReplaceDangerous(Replace(s, dangerous_chars[i], <<"_">>), i + 1)

\* sanitize_pod_name raises ValidationError on an empty name
NameIsValid(name) == name # <<>>
sanitize_pod_name(name) == Strip(ReplaceDangerous(name, 1))

(***************************************************************************)
(* State                                                                   *)
(***************************************************************************)
VARIABLES
    \* DatabaseConnectionPool
    available_connections,  \* deque of idle handles, oldest first
    in_use_connections,     \* set of handles handed out
    created,                \* handles opened so far; handle ids are 1..created
    closed,                 \* handles on which close() was called
    autocommit,             \* handles whose isolation_level is None
    \* the store file
    db,                     \* committed tables and AUTOINCREMENT sequences
    wlock,                  \* handle holding the write lock (open write transaction) or None
    work,                   \* working copy of the open write transaction
    \* environment
    clock,                  \* index into Instants
    tz,                     \* local-time offset of the host
    \* callers
    pc,                     \* position of each thread inside its current call
    op,                     \* arguments and locals of the current call
    conn,                   \* handle the call holds, or None
    returned,               \* what the call that ended in the last step gave its caller
    \* direct callers of the pool (PoolSpec)
    held,                   \* handles each caller was given and has not returned
    stale,                  \* handles each caller has already returned
    acquired,               \* outcomes of the get_connection calls made since the in-use
                            \* set was last empty, while nothing was released
    \* PerformanceMonitor, the process-wide singleton
    db_operations,          \* deque of the instants of database operations, oldest first
    api_calls,              \* deque of the instants of Kubernetes API calls, oldest first
    recorded                \* every instant record_db_operation was called at, in order

poolVars == <<available_connections, in_use_connections, created, closed, autocommit>>
dbVars == <<db, wlock, work>>
envVars == <<clock, tz>>
callVars == <<pc, op, conn, returned>>
harnessVars == <<held, stale, acquired>>
monitorVars == <<db_operations, api_calls, recorded>>
vars == <<poolVars, dbVars, envVars, callVars, harnessVars, monitorVars>>

now == Instants[clock]

Tracking(outcomes) == [outcomes |-> outcomes, fresh |-> TRUE]
NotTracking == [outcomes |-> <<>>, fresh |-> FALSE]

(***************************************************************************)
(* performance.py: DatabaseConnectionPool                                  *)
(***************************************************************************)
\* a pool that opens a handle while the maximum is already in use
CanCreateWhenFull(n) == n <= max_connections

\* line 254: a new handle is opened only while fewer than the maximum are in use
CanCreate(n) == n < max_connections

\* line 280: a returned handle is kept only while the idle deque is below capacity
HasRoom(n) == n < max_connections

\* handles sqlite3.connect may open in one behaviour
MaxHandles == max_connections + 1

\* get_connection: the outcome and the pool's bookkeeping after the call.
\* The deque never holds Python's None, so the filter of lines 242-245 keeps it as it is.
get_connection(avail, inuse, made) ==
    IF avail # <<>>
    THEN [conn |-> Head(avail), available |-> Tail(avail),
          in_use |-> inuse \cup {Head(avail)}, created |-> made]
    ELSE IF CanCreate(Cardinality(inuse))
         THEN [conn |-> made + 1, available |-> avail,
               in_use |-> inuse \cup {made + 1}, created |-> made + 1]
         ELSE [conn |-> None, available |-> avail, in_use |-> inuse, created |-> made]

\* return_connection
return_connection(c, avail, inuse, shut) ==
    IF c # None /\ c \in inuse
    THEN IF HasRoom(Len(avail))
         THEN [available |-> Append(avail, c), in_use |-> inuse \ {c}, closed |-> shut]
         ELSE [available |-> avail, in_use |-> inuse \ {c}, closed |-> shut \cup {c}]
    ELSE [available |-> avail, in_use |-> inuse, closed |-> shut]

SeqRange(s) == {s[i] : i \in 1..Len(s)}

\* close_all
close_all(avail, inuse, shut) ==
    [available |-> <<>>, in_use |-> {}, closed |-> shut \cup SeqRange(avail) \cup inuse]

(***************************************************************************)
(* The engine, as database.py uses it                                      *)
(***************************************************************************)
NULL == <<>>

\* CHECK constraints of pod_history (lines 72-86); a CHECK refuses a row when
\* its expression is false, and cpu_request >= 0 on NULL is NULL, not false
ChecksPass(item) ==
    /\ item.pod_type \in {"driver", "executor"}
    /\ item.cpu_request = NaN \/ item.cpu_request >= 0

\* a handle reads its own open transaction, every other handle the committed state
View(h) == IF wlock = h THEN work ELSE db

\* a write statement needs the write lock
LockFree(h) == wlock = None \/ wlock = h

\* the store after handle h ran a write statement that produced newdb
Written(h, newdb) ==
    IF h \in autocommit
    THEN /\ db' = newdb
         /\ work' = newdb
         /\ wlock' = None
    ELSE /\ work' = newdb
         /\ wlock' = h
         /\ UNCHANGED db

\* a write statement of handle h failed on a constraint: a handle in DEFERRED mode
\* is left inside the transaction it began, until the caller rolls back
Refused(h) ==
    IF h \in autocommit
    THEN UNCHANGED dbVars
    ELSE /\ wlock' = h
         /\ UNCHANGED <<db, work>>

\* a handle that goes back to the pool as it is
CommitHandleSkipped(h) == UNCHANGED dbVars

\* conn.commit()
CommitHandle(h) ==
    IF wlock = h
    THEN /\ db' = work
         /\ wlock' = None
         /\ UNCHANGED work
    ELSE UNCHANGED dbVars

\* conn.rollback()
RollbackHandle(h) ==
    IF wlock = h
    THEN /\ work' = db
         /\ wlock' = None
         /\ UNCHANGED db
    ELSE UNCHANGED dbVars

\* an INSERT OR REPLACE keyed by (namespace, pod_name)
InsertHistoryUpsert(d, ts, ns, item) ==
    [d EXCEPT
       !.hseq = @ + 1,
       !.history = {r \in @ : ~(r.namespace = ns /\ r.pod_name = item.pod_name)}
                   \cup {[id |-> d.hseq + 1, timestamp |-> ts, namespace |-> ns,
                           pod_name |-> item.pod_name, pod_type |-> item.pod_type,
                           app_name |-> item.app_name,
                           cpu_request |-> item.cpu_request, is_active |-> TRUE,
                           deletion_timestamp |-> NULL, captured |-> now]}]

\* INSERT INTO pod_history ... VALUES (..., 1); captured is not a column: it
\* records the instant of the INSERT, whatever the timestamp column was given
InsertHistory(d, ts, ns, item) ==
    [d EXCEPT
       !.hseq = @ + 1,
       !.history = @ \cup {[id |-> d.hseq + 1, timestamp |-> ts, namespace |-> ns,
                            pod_name |-> item.pod_name, pod_type |-> item.pod_type,
                           app_name |-> item.app_name,
                            cpu_request |-> item.cpu_request, is_active |-> TRUE,
                            deletion_timestamp |-> NULL, captured |-> now]}]

\* INSERT INTO pod_events
InsertEvent(d, ts, ns, name) ==
    [d EXCEPT
       !.eseq = @ + 1,
       !.events = @ \cup {[id |-> d.eseq + 1, timestamp |-> ts, namespace |-> ns,
                           pod_name |-> name]}]

\* an UPDATE without the namespace condition
MarkMatchesAnyNamespace(d, ns, names) ==
    {r \in d.history : r.is_active /\ r.pod_name \notin names}

\* an UPDATE that is skipped when the list of observed names is empty
MarkMatchesUnlessEmpty(d, ns, names) ==
    {r \in d.history : names # {} /\ r.namespace = ns /\ r.is_active /\ r.pod_name \notin names}

\* an UPDATE without the is_active = 1 condition
MarkMatchesInactiveToo(d, ns, names) ==
    IF names # {}
    THEN {r \in d.history : r.namespace = ns /\ r.pod_name \notin names}
    ELSE {r \in d.history : r.namespace = ns}

\* the rows the UPDATE of mark_pods_inactive matches (lines 271-284)
MarkMatches(d, ns, names) ==
    IF names # {}
    THEN {r \in d.history : r.namespace = ns /\ r.is_active /\ r.pod_name \notin names}
    ELSE {r \in d.history : r.namespace = ns /\ r.is_active}

\* SET is_active = 0 alone
DeactivatedUnstamped(r, ts) == [r EXCEPT !.is_active = FALSE]

\* SET is_active = 0, deletion_timestamp = CURRENT_TIMESTAMP
Deactivated(r, ts) == [r EXCEPT !.is_active = FALSE, !.deletion_timestamp = <<ts>>]

UpdateInactive(d, ns, names, ts) ==
    LET hit == MarkMatches(d, ns, names)
    IN  [d EXCEPT !.history = (@ \ hit) \cup {Deactivated(r, ts) : r \in hit}]

\* the argument taken as it comes
EffectiveRetentionUnclamped(days) == days

\* line 385
EffectiveRetention(days) == Max(MinRetentionDays, Min(MaxRetentionDays, days))

\* a cutoff that takes the days for hours
CutoffDaysAsHours(t, days) == t - days

\* datetime('now', '-N days')
CutoffDays(t, days) == t - days * HoursPerDay

\* datetime('now', '-N hours')
CutoffHours(t, hours) == t - hours

\* WHERE timestamp < datetime('now', '-N days')
Expired(rows, t, days) == {r \in rows : r.timestamp < CutoffDays(t, days)}

DeleteHistory(d, t, days) == [d EXCEPT !.history = @ \ Expired(@, t, days)]
DeleteEvents(d, t, days) == [d EXCEPT !.events = @ \ Expired(@, t, days)]

\* SELECT of get_historical_data (lines 328-340); app is the argument as passed
SelectHistorical(d, ns, t, hours, app) ==
    {r \in d.history :
        /\ r.namespace = ns
        /\ r.timestamp >= CutoffHours(t, hours)
        /\ app # <<>> => r.app_name = Strip(app)}

\* ORDER BY timestamp DESC; rows of one timestamp come as the engine finds
\* them, here the later id first
Newest(rows) ==
    CHOOSE r \in rows :
        \A q \in rows : r.timestamp > q.timestamp
                          \/ (r.timestamp = q.timestamp /\ r.id >= q.id)

RECURSIVE OrderByTimestampDesc(_)
OrderByTimestampDesc(rows) ==
    IF rows = {} THEN <<>>
    ELSE <<Newest(rows)>> \o OrderByTimestampDesc(rows \ {Newest(rows)})

\* ORDER BY timestamp; rows of one timestamp by id
Oldest(rows) ==
    CHOOSE r \in rows :
        \A q \in rows : r.timestamp < q.timestamp
                          \/ (r.timestamp = q.timestamp /\ r.id <= q.id)

RECURSIVE OrderByTimestamp(_)
OrderByTimestamp(rows) ==
    IF rows = {} THEN <<>>
    ELSE <<Oldest(rows)>> \o OrderByTimestamp(rows \ {Oldest(rows)})

\* LIMIT n
Limit(q, n) == SubSeq(q, 1, Min(Len(q), n))

\* SELECT of get_pod_timeline over pod_history (lines 359-364) or pod_events (367-372)
SelectTimeline(rows, ns, name) == {r \in rows : r.namespace = ns /\ r.pod_name = name}

\* line 447: f"{start_date} 00:00:00" if len(start_date) == 10
start_dt(a) == IF a.bare THEN a.v * HoursPerDay ELSE a.v

\* an end date taken as the first instant of its day
end_dt_midnight(a) == IF a.bare THEN a.v * HoursPerDay ELSE a.v

\* line 448: f"{end_date} 23:59:59" if len(end_date) == 10; 23:59:59 is the last
\* instant of the day a stored timestamp can name
end_dt(a) == IF a.bare THEN a.v * HoursPerDay + (HoursPerDay - 1) ELSE a.v

\* SELECT of export_historical_data (lines 451-457): timestamp BETWEEN ? AND ?
SelectExport(d, ns, from, to) ==
    {r \in d.history : r.namespace = ns /\ from <= r.timestamp /\ r.timestamp <= to}

\* the columns of pod_history the model keeps
Columns(r) ==
    [id |-> r.id, timestamp |-> r.timestamp, namespace |-> r.namespace,
     pod_name |-> r.pod_name, pod_type |-> r.pod_type, app_name |-> r.app_name,
     cpu_request |-> r.cpu_request, is_active |-> r.is_active,
     deletion_timestamp |-> r.deletion_timestamp]

\* df.to_json(orient='records'): one record per row of the frame, in its order
to_json(q) == [k \in 1..Len(q) |-> Columns(q[k])]

\* df.to_csv(index=False): the header line, then one line per row
to_csv(q) ==
    << <<"id", "timestamp", "namespace", "pod_name", "pod_type", "app_name",
         "cpu_request", "is_active", "deletion_timestamp">> >>
    \o [k \in 1..Len(q) |->
           <<q[k].id, q[k].timestamp, q[k].namespace, q[k].pod_name, q[k].pod_type,
             q[k].app_name, q[k].cpu_request, q[k].is_active, q[k].deletion_timestamp>>]

\* the rows list_pod_names looks at (lines 534-555): those of the namespace, or
\* all rows when no namespace is given
Listed(d, ns) ==
    IF ns # NULL THEN {r \in d.history : r.namespace = Strip(ns)} ELSE d.history

\* the ORDER BY subquery of list_pod_names for row r: MAX(timestamp) over the
\* rows of the same pod_name, and of the same namespace when one is given
LastSeen(d, ns, r) ==
    LET same == {q \in d.history :
                    /\ q.pod_name = r.pod_name
                    /\ ns # NULL => q.namespace = r.namespace}
    IN  CHOOSE x \in {q.timestamp : q \in same} :
            \A y \in {q.timestamp : q \in same} : x >= y

\* ascending order
Earlier(x, y) == x <= y

\* ... DESC (lines 544, 554)
Later(x, y) == x >= y

\* SELECT DISTINCT pod_name ... ORDER BY (...) DESC; names seen equally late come
\* as the engine finds them
RECURSIVE ListNames(_, _, _)
ListNames(d, ns, rows) ==
    IF rows = {} THEN <<>>
    ELSE LET first == CHOOSE r \in rows :
                          \A q \in rows : Later(LastSeen(d, ns, r), LastSeen(d, ns, q))
         IN  <<first.pod_name>>
             \o ListNames(d, ns, {q \in rows : q.pod_name # first.pod_name})

\* the health flag of get_database_stats
health_status_always(journal) == "healthy"

\* line 513
health_status(journal) == IF journal = "wal" THEN "healthy" ELSE "warning"

(***************************************************************************)
(* Callers of HistoryManager                                               *)
(***************************************************************************)
\* the tables and indexes init_database creates (lines 66-117), in its order
SchemaObjects ==
    <<"pod_history", "pod_events", "idx_pod_name", "idx_timestamp", "idx_app_name",
      "idx_pod_type", "idx_ns_ts", "idx_ns_pod", "idx_ns_active", "idx_ns_app_ts",
      "idx_events_pod", "idx_events_ts">>

BatchInputs(D) == UNION {[1..n -> D.items] : n \in 0..MaxBatch}

\* a store file nothing was created in; journal_mode is what the engine answered
\* to PRAGMA journal_mode=WAL (performance.py line 262)
BlankFile ==
    [history |-> {}, events |-> {}, hseq |-> 0, eseq |-> 0,
     schema |-> {}, journal_mode |-> "wal"]

\* DROP ... IF EXISTS followed by CREATE: the object is made anew
CreateAfresh(d, obj) ==
    [d EXCEPT !.schema = @ \cup {obj},
              !.history = IF obj = "pod_history" THEN {} ELSE @,
              !.hseq = IF obj = "pod_history" THEN 0 ELSE @,
              !.events = IF obj = "pod_events" THEN {} ELSE @,
              !.eseq = IF obj = "pod_events" THEN 0 ELSE @]

\* CREATE TABLE IF NOT EXISTS / CREATE INDEX IF NOT EXISTS
CreateIfNotExists(d, obj) ==
    IF obj \in d.schema THEN d ELSE [d EXCEPT !.schema = @ \cup {obj}]

RECURSIVE CreateAll(_, _)
CreateAll(d, objs) ==
    IF objs = <<>> THEN d ELSE CreateAll(CreateIfNotExists(d, Head(objs)), Tail(objs))

\* the statements of init_database (lines 66-120)
init_database(d) == CreateAll(d, SchemaObjects)

\* the store file after the first construction
EmptyStore == init_database(BlankFile)

\* a call: its normalised arguments (kind .. hours), its locals (ts .. failed),
\* how the VACUUM block of cleanup_old_data went (vacuum) and the committed store
\* the call was made on (before)
NoOp ==
    [kind |-> "none", ns |-> <<>>, names |-> {}, items |-> <<>>, i |-> 0,
     days |-> 0, retention |-> 0, hours |-> 0, ts |-> 0,
     n |-> 0, m |-> 0, ids |-> {}, failed |-> FALSE, vacuum |-> "none",
     app |-> <<>>, start_date |-> BareDate(0), end_date |-> BareDate(0),
     from |-> 0, to |-> 0, format |-> <<>>, rows |-> <<>>,
     events |-> <<>>, out |-> <<>>, active |-> 0, journal_mode |-> "", health_status |-> "",
     error |-> "none", before |-> EmptyStore]

Nothing == [status |-> "none", cause |-> "none", thread |-> "none", call |-> NoOp]

\* the call returns normally; call.n, call.m and call.ids are what it hands back
Returned(t, o) == [status |-> "ok", cause |-> "none", thread |-> t, call |-> o]

\* the call raises DatabaseError; cause is the root of its cause chain
Raised(t, o, cause) == [status |-> "DatabaseError", cause |-> cause, thread |-> t, call |-> o]

\* the call returns normally although an exception was caught inside it: the
\* result is the one its except clause builds
Degraded(t, o, cause) == [status |-> "ok", cause |-> cause, thread |-> t, call |-> o]

Finish(t, r) ==
    /\ pc' = [pc EXCEPT ![t] = "idle"]
    /\ op' = [op EXCEPT ![t] = NoOp]
    /\ returned' = r

\* a step inside a call gives nothing back
Continue(t, where, o) ==
    /\ pc' = [pc EXCEPT ![t] = where]
    /\ op' = [op EXCEPT ![t] = o]
    /\ returned' = Nothing

\* an exception reached the outer except clause of the operation: list_pod_names
\* returns [] (lines 558-560), get_database_stats returns the error result (lines
\* 519-527), every other operation raises DatabaseError
Failure(t, o, cause) ==
    IF o.kind = "list_pod_names"
    THEN Finish(t, Degraded(t, [o EXCEPT !.rows = <<>>], cause))
    ELSE IF o.kind = "get_database_stats"
    THEN Finish(t, Degraded(t, [o EXCEPT !.n = 0, !.m = 0, !.active = 0,
                                         !.journal_mode = "",
                                         !.health_status = "error",
                                         !.error = cause], cause))
    ELSE Finish(t, Raised(t, o, cause))

SetPool(g) ==
    /\ available_connections' = g.available
    /\ in_use_connections' = g.in_use

\* the normalised call enters _get_connection (lines 29-38): with no handle it
\* raises DatabaseError and there is nothing to roll back or to return
Begin(t, o) ==
    LET g == get_connection(available_connections, in_use_connections, created)
    IN  /\ SetPool(g)
        /\ created' = g.created
        /\ IF g.conn = None
           THEN /\ Failure(t, o, "pool")
                /\ UNCHANGED conn
           ELSE /\ conn' = [conn EXCEPT ![t] = g.conn]
                /\ Continue(t, "exec", [o EXCEPT !.before = db])
        /\ UNCHANGED <<closed, autocommit>>

\* the call is rejected while its arguments are normalised: the pool is not asked
Reject(t, kind) ==
    /\ Finish(t, Raised(t, [NoOp EXCEPT !.kind = kind], "validation"))
    /\ UNCHANGED <<poolVars, conn>>

\* rows the calls in progress have still to insert
Remaining(t) == IF pc[t] = "exec" THEN Len(op[t].items) - op[t].i ELSE 0

RECURSIVE SumRemaining(_)
SumRemaining(S) ==
    IF S = {} THEN 0
    ELSE LET t == CHOOSE x \in S : TRUE IN Remaining(t) + SumRemaining(S \ {t})

\* the store takes MaxRows rows, and D.more rows beyond them
RoomForRows(D, n) == work.hseq + SumRemaining(Threads) + n <= MaxRows + D.more

\* app_name.strip() if app_name else pod_name (lines 148, 207)
AppOrPod(app, pod_name) == IF app # <<>> THEN Strip(app) ELSE pod_name

\* batch: pod_type.strip() if pod_type else "unknown" (line 206)
NormalizeItem(it) ==
    [pod_name |-> sanitize_pod_name(it.name),
     pod_type |-> IF it.pod_type = "" THEN "unknown" ELSE it.pod_type,
     app_name |-> AppOrPod(it.app, sanitize_pod_name(it.name)),
     cpu_request |-> it.cpu_request]

\* store_pod_data, lines 144-163
CallStore(t, D) ==
    /\ pc[t] = "idle"
    /\ "store_pod_data" \in D.calls[t]
    /\ RoomForRows(D, 1)
    /\ \E ns \in D.namespaces, name \in D.pods, app \in D.apps, cpu \in D.cpus :
         IF NameIsValid(name)
         THEN Begin(t, [NoOp EXCEPT
                  !.kind = "store_pod_data", !.ns = Strip(ns),
                  !.items = <<[pod_name |-> sanitize_pod_name(name),
                               pod_type |-> "driver",
                               app_name |-> AppOrPod(app, sanitize_pod_name(name)),
                               cpu_request |-> cpu]>>])
         ELSE Reject(t, "store_pod_data")
    /\ UNCHANGED <<dbVars, envVars, harnessVars, monitorVars>>

\* store_pod_data_batch, lines 192-243; every tuple of the round names one namespace
CallBatch(t, D) ==
    /\ pc[t] = "idle"
    /\ "store_pod_data_batch" \in D.calls[t]
    /\ \E ns \in D.namespaces, items \in BatchInputs(D) :
         IF items = <<>>
         THEN /\ Finish(t, Returned(t, [NoOp EXCEPT !.kind = "store_pod_data_batch"]))
              /\ UNCHANGED <<poolVars, conn>>
         ELSE IF \E k \in 1..Len(items) : ~NameIsValid(items[k].name)
         THEN Reject(t, "store_pod_data_batch")
         ELSE /\ RoomForRows(D, Len(items))
              /\ Begin(t, [NoOp EXCEPT
                     !.kind = "store_pod_data_batch", !.ns = Strip(ns),
                     !.items = [k \in 1..Len(items) |-> NormalizeItem(items[k])],
                     !.ts = now + tz])
    /\ UNCHANGED <<dbVars, envVars, harnessVars, monitorVars>>

\* the tuple render_current_status builds for an observed pod
\* (current_status.py lines 80-93)
RoundItem(name) == [name |-> name, pod_type |-> "driver", app |-> <<>>, cpu_request |-> 1]

\* render_current_status, lines 77-97: batch_items and active_pod_names are built
\* from the pods observed, and a non-empty batch is stored; names holds
\* active_pod_names for line 98
RoundStore(t, D) ==
    /\ pc[t] = "idle"
    /\ \E ns \in D.namespaces, S \in D.observed :
         /\ S # <<>>
         /\ RoomForRows(D, Len(S))
         /\ Begin(t, [NoOp EXCEPT
                !.kind = "store_pod_data_batch", !.ns = Strip(ns),
                !.items = [k \in 1..Len(S) |-> NormalizeItem(RoundItem(S[k]))],
                !.ts = now + tz,
                !.names = SeqRange(S)])
    /\ UNCHANGED <<dbVars, envVars, harnessVars, monitorVars>>

\* render_current_status, line 98: mark_pods_inactive(namespace, active_pod_names),
\* after the batch of the round has returned, or at once when nothing was observed
RoundMark(t, D) ==
    /\ \/ pc[t] = "observed"
       \/ pc[t] = "idle" /\ <<>> \in D.observed
    /\ \E ns \in D.namespaces :
         /\ pc[t] = "observed" => Strip(ns) = op[t].ns
         /\ Begin(t, [NoOp EXCEPT
                !.kind = "mark_pods_inactive", !.ns = Strip(ns),
                !.names = {sanitize_pod_name(name) : name \in op[t].names}])
    /\ UNCHANGED <<dbVars, envVars, harnessVars, monitorVars>>

\* mark_pods_inactive, lines 265-268
CallMark(t, D) ==
    /\ pc[t] = "idle"
    /\ "mark_pods_inactive" \in D.calls[t]
    /\ \E ns \in D.namespaces, S \in SUBSET D.names :
         IF \A name \in S : NameIsValid(name)
         THEN Begin(t, [NoOp EXCEPT
                  !.kind = "mark_pods_inactive", !.ns = Strip(ns),
                  !.names = {sanitize_pod_name(name) : name \in S}])
         ELSE Reject(t, "mark_pods_inactive")
    /\ UNCHANGED <<dbVars, envVars, harnessVars, monitorVars>>

\* log_pod_event, lines 300-307
CallEvent(t, D) ==
    /\ pc[t] = "idle"
    /\ "log_pod_event" \in D.calls[t]
    /\ work.eseq < MaxEvents
    /\ \E ns \in D.namespaces, name \in D.pods :
         IF NameIsValid(name)
         THEN Begin(t, [NoOp EXCEPT
                  !.kind = "log_pod_event", !.ns = Strip(ns),
                  !.names = {sanitize_pod_name(name)}])
         ELSE Reject(t, "log_pod_event")
    /\ UNCHANGED <<dbVars, envVars, harnessVars, monitorVars>>

\* cleanup_old_data, lines 385-389
CallCleanup(t, D) ==
    /\ pc[t] = "idle"
    /\ "cleanup_old_data" \in D.calls[t]
    /\ \E d \in D.days :
         Begin(t, [NoOp EXCEPT
             !.kind = "cleanup_old_data", !.days = d,
             !.retention = EffectiveRetention(d)])
    /\ UNCHANGED <<dbVars, envVars, harnessVars, monitorVars>>

\* get_historical_data, lines 325-327
CallHistorical(t, D) ==
    /\ pc[t] = "idle"
    /\ "get_historical_data" \in D.calls[t]
    /\ \E ns \in D.namespaces, h \in D.hours, app \in D.filters :
         Begin(t, [NoOp EXCEPT
             !.kind = "get_historical_data", !.ns = Strip(ns), !.hours = h,
             !.app = app])
    /\ UNCHANGED <<dbVars, envVars, harnessVars, monitorVars>>

\* get_pod_timeline, lines 354-357
CallTimeline(t, D) ==
    /\ pc[t] = "idle"
    /\ \E ns \in D.namespaces, name \in D.pods :
         IF NameIsValid(name)
         THEN Begin(t, [NoOp EXCEPT
                  !.kind = "get_pod_timeline", !.ns = Strip(ns),
                  !.names = {sanitize_pod_name(name)}])
         ELSE Reject(t, "get_pod_timeline")
    /\ UNCHANGED <<dbVars, envVars, harnessVars, monitorVars>>

\* list_pod_names, lines 531-532; NULL stands for a call without namespace
CallList(t, D) ==
    /\ pc[t] = "idle"
    /\ \E ns \in D.namespaces \cup {NULL} :
         Begin(t, [NoOp EXCEPT !.kind = "list_pod_names", !.ns = ns])
    /\ UNCHANGED <<dbVars, envVars, harnessVars, monitorVars>>

\* export_historical_data, lines 440-450
CallExport(t, D) ==
    /\ pc[t] = "idle"
    /\ \E ns \in D.namespaces, a \in D.starts, b \in D.ends, f \in D.formats :
         IF Strip(Lower(f)) \in ExportFormats
         THEN Begin(t, [NoOp EXCEPT
                  !.kind = "export_historical_data", !.ns = Strip(ns),
                  !.start_date = a, !.end_date = b,
                  !.from = start_dt(a), !.to = end_dt(b),
                  !.format = Strip(Lower(f))])
         ELSE Reject(t, "export_historical_data")
    /\ UNCHANGED <<dbVars, envVars, harnessVars, monitorVars>>

\* get_database_stats, lines 476-477
CallStats(t, D) ==
    /\ pc[t] = "idle"
    /\ Begin(t, [NoOp EXCEPT !.kind = "get_database_stats"])
    /\ UNCHANGED <<dbVars, envVars, harnessVars, monitorVars>>

Call(t, D) ==
    \/ CallStore(t, D)
    \/ CallBatch(t, D)
    \/ CallMark(t, D)
    \/ CallEvent(t, D)
    \/ CallCleanup(t, D)
    \/ CallHistorical(t, D)

(***************************************************************************)
(* _get_connection and the statements run inside it                        *)
(***************************************************************************)
\* a statement raised sqlite3.Error: lines 40-44 run next
Fails(t) == Continue(t, "rollback", [op[t] EXCEPT !.failed = TRUE])

\* a batch that reads the clock anew for every row it writes
timestamp_per_row(o) == now + tz

\* timestamp_now of store_pod_data_batch (line 238), put in front of every tuple
\* of the round (lines 239-241)
timestamp_now(o) == o.ts

\* INSERT of store_pod_data (165-181); one row of the executemany of the batch (245-253)
ExecInsert(t) ==
    /\ pc[t] = "exec"
    /\ op[t].kind \in {"store_pod_data", "store_pod_data_batch"}
    /\ LET h == conn[t]
           k == op[t].i + 1
           item == op[t].items[k]
           ts == IF op[t].kind = "store_pod_data_batch" THEN timestamp_now(op[t]) ELSE now
       IN  \/ /\ ~LockFree(h)
              /\ UNCHANGED dbVars
              /\ Fails(t)
           \/ /\ LockFree(h)
              /\ ~ChecksPass(item)
              /\ Refused(h)
              /\ Fails(t)
           \/ /\ LockFree(h)
              /\ ChecksPass(item)
              /\ Written(h, InsertHistory(View(h), ts, op[t].ns, item))
              /\ Continue(t, IF k = Len(op[t].items) THEN "commit" ELSE "exec",
                          [op[t] EXCEPT !.i = k, !.ids = @ \cup {View(h).hseq + 1}])
    /\ UNCHANGED <<poolVars, envVars, conn, harnessVars, monitorVars>>

\* UPDATE of mark_pods_inactive (271-286); n is cursor.rowcount
ExecUpdate(t) ==
    /\ pc[t] = "exec"
    /\ op[t].kind = "mark_pods_inactive"
    /\ LET h == conn[t]
       IN  \/ /\ ~LockFree(h)
              /\ UNCHANGED dbVars
              /\ Fails(t)
           \/ /\ LockFree(h)
              /\ Written(h, UpdateInactive(View(h), op[t].ns, op[t].names, now))
              /\ Continue(t, "commit",
                          [op[t] EXCEPT
                              !.n = Cardinality(MarkMatches(View(h), op[t].ns, op[t].names))])
    /\ UNCHANGED <<poolVars, envVars, conn, harnessVars, monitorVars>>

\* INSERT of log_pod_event (309-313)
ExecEvent(t) ==
    /\ pc[t] = "exec"
    /\ op[t].kind = "log_pod_event"
    /\ LET h == conn[t]
       IN  \/ /\ ~LockFree(h)
              /\ UNCHANGED dbVars
              /\ Fails(t)
           \/ /\ LockFree(h)
              /\ \E name \in op[t].names :
                   Written(h, InsertEvent(View(h), now, op[t].ns, name))
              /\ Continue(t, "commit", [op[t] EXCEPT !.ids = {View(h).eseq + 1}])
    /\ UNCHANGED <<poolVars, envVars, conn, harnessVars, monitorVars>>

\* first DELETE of cleanup_old_data (393-397); n is history_deleted
ExecDeleteHistory(t) ==
    /\ pc[t] = "exec"
    /\ op[t].kind = "cleanup_old_data"
    /\ LET h == conn[t]
       IN  \/ /\ ~LockFree(h)
              /\ UNCHANGED dbVars
              /\ Fails(t)
           \/ /\ LockFree(h)
              /\ Written(h, DeleteHistory(View(h), now, op[t].retention))
              /\ Continue(t, "exec2",
                          [op[t] EXCEPT
                              !.n = Cardinality(Expired(View(h).history, now, op[t].retention))])
    /\ UNCHANGED <<poolVars, envVars, conn, harnessVars, monitorVars>>

\* second DELETE (400-404); m is events_deleted; the conn.commit() of line 407
\* is the Commit step
ExecDeleteEvents(t) ==
    /\ pc[t] = "exec2"
    /\ LET h == conn[t]
       IN  \/ /\ ~LockFree(h)
              /\ UNCHANGED dbVars
              /\ Fails(t)
           \/ /\ LockFree(h)
              /\ Written(h, DeleteEvents(View(h), now, op[t].retention))
              /\ Continue(t, "commit",
                          [op[t] EXCEPT
                              !.m = Cardinality(Expired(View(h).events, now, op[t].retention))])
    /\ UNCHANGED <<poolVars, envVars, conn, harnessVars, monitorVars>>

\* SELECT of get_historical_data (342): a reader is never blocked under WAL, and
\* opens no transaction, so the commit of line 53 has nothing to do; rows is the
\* frame returned and ids the ids of its rows
ExecSelect(t) ==
    /\ pc[t] = "exec"
    /\ op[t].kind = "get_historical_data"
    /\ LET found == SelectHistorical(View(conn[t]), op[t].ns, now, op[t].hours,
                                      op[t].app)
       IN  Continue(t, "return",
                    [op[t] EXCEPT
                        !.ids = {r.id : r \in found},
                        !.rows = Limit(OrderByTimestampDesc(found), HistoricalLimit)])
    /\ UNCHANGED <<poolVars, dbVars, envVars, conn, harnessVars, monitorVars>>

\* the two SELECTs of get_pod_timeline (359-372)
ExecTimeline(t) ==
    /\ pc[t] = "exec"
    /\ op[t].kind = "get_pod_timeline"
    /\ LET d == View(conn[t])
           name == CHOOSE x \in op[t].names : TRUE
       IN  Continue(t, "return",
               [op[t] EXCEPT
                   !.rows = Limit(OrderByTimestamp(SelectTimeline(d.history, op[t].ns, name)),
                                  TimelineLimit),
                   !.events = Limit(OrderByTimestamp(SelectTimeline(d.events, op[t].ns, name)),
                                    TimelineEventLimit)])
    /\ UNCHANGED <<poolVars, dbVars, envVars, conn, harnessVars, monitorVars>>

\* SELECT DISTINCT of list_pod_names (534-557); rows is the list of names
ExecList(t) ==
    /\ pc[t] = "exec"
    /\ op[t].kind = "list_pod_names"
    /\ LET d == View(conn[t])
       IN  Continue(t, "return",
               [op[t] EXCEPT !.rows = ListNames(d, op[t].ns, Listed(d, op[t].ns))])
    /\ UNCHANGED <<poolVars, dbVars, envVars, conn, harnessVars, monitorVars>>

\* SELECT of export_historical_data and the serialisation (451-467)
ExecExport(t) ==
    /\ pc[t] = "exec"
    /\ op[t].kind = "export_historical_data"
    /\ LET frame == Limit(OrderByTimestampDesc(
                              SelectExport(View(conn[t]), op[t].ns, op[t].from, op[t].to)),
                          ExportLimit)
       IN  Continue(t, "return",
               [op[t] EXCEPT
                   !.rows = frame,
                   !.out = IF op[t].format = <<"j", "s", "o", "n">>
                           THEN to_json(frame) ELSE to_csv(frame)])
    /\ UNCHANGED <<poolVars, dbVars, envVars, conn, harnessVars, monitorVars>>

\* the statements of get_database_stats (481-514)
ExecStats(t) ==
    /\ pc[t] = "exec"
    /\ op[t].kind = "get_database_stats"
    /\ LET d == View(conn[t])
       IN  Continue(t, "return",
               [op[t] EXCEPT
                   !.n = Cardinality(d.history),
                   !.m = Cardinality(d.events),
                   !.active = Cardinality({r \in d.history : r.is_active}),
                   !.journal_mode = d.journal_mode,
                   !.health_status = health_status(d.journal_mode)])
    /\ UNCHANGED <<poolVars, dbVars, envVars, conn, harnessVars, monitorVars>>

WriteKinds ==
    {"store_pod_data", "store_pod_data_batch", "mark_pods_inactive", "log_pod_event",
     "cleanup_old_data"}

\* a statement raises sqlite3.Error for a reason of the engine's own (disk full,
\* I/O error): a handle in DEFERRED mode has begun its transaction by then
ExecFails(t) ==
    /\ pc[t] \in {"exec", "exec2"}
    /\ IF op[t].kind \in WriteKinds /\ LockFree(conn[t])
       THEN Refused(conn[t])
       ELSE UNCHANGED dbVars
    /\ Fails(t)
    /\ UNCHANGED <<poolVars, envVars, conn, harnessVars, monitorVars>>

\* lines 52-56: conn.commit() raises on the way out of _get_connection.  The
\* except clause logs a warning, return_connection is not reached, and the call
\* goes on as if nothing had happened.  The engine either has rolled the
\* transaction back itself or has left it open on the handle.
CommitFails(t) ==
    /\ pc[t] = "commit"
    /\ op[t].kind # "cleanup_old_data"
    /\ wlock = conn[t]
    /\ \/ UNCHANGED dbVars
       \/ RollbackHandle(conn[t])
    /\ conn' = [conn EXCEPT ![t] = None]
    /\ Finish(t, Returned(t, op[t]))
    /\ UNCHANGED <<poolVars, envVars, harnessVars, monitorVars>>

\* line 407: the conn.commit() of cleanup_old_data raises inside the with block,
\* which makes it a failed statement of _get_connection (lines 40-49)
CleanupCommitFails(t) ==
    /\ pc[t] = "commit"
    /\ op[t].kind = "cleanup_old_data"
    /\ wlock = conn[t]
    /\ UNCHANGED dbVars
    /\ Fails(t)
    /\ UNCHANGED <<poolVars, envVars, conn, harnessVars, monitorVars>>

\* lines 42 / 47: conn.rollback() raises inside the except clause, and its error
\* leaves _get_connection through the finally block.  The engine has rolled the
\* transaction back itself or has left it open.  Then either conn.commit() of
\* line 53 succeeds, on whatever is open, and line 54 returns the handle, or it
\* raises too and the handle stays in the in-use set (lines 55-56).
RollbackFails(t) ==
    /\ pc[t] = "rollback"
    /\ wlock = conn[t]
    /\ \/ /\ \/ CommitHandle(conn[t])
             \/ RollbackHandle(conn[t])
          /\ LET g == return_connection(conn[t], available_connections,
                                        in_use_connections, closed)
             IN  /\ SetPool(g)
                 /\ closed' = g.closed
       \/ /\ \/ UNCHANGED dbVars
             \/ RollbackHandle(conn[t])
          /\ UNCHANGED <<available_connections, in_use_connections, closed>>
    /\ conn' = [conn EXCEPT ![t] = None]
    /\ Failure(t, op[t], "rollback")
    /\ UNCHANGED <<created, autocommit, envVars, harnessVars, monitorVars>>

\* lines 41-42 / 46-47: conn.rollback(); the commit of line 53 then finds no transaction
Rollback(t) ==
    /\ pc[t] = "rollback"
    /\ RollbackHandle(conn[t])
    /\ Continue(t, "return", op[t])
    /\ UNCHANGED <<poolVars, envVars, conn, harnessVars, monitorVars>>

\* line 53 (and line 407 of cleanup_old_data): conn.commit()
Commit(t) ==
    /\ pc[t] = "commit"
    /\ CommitHandle(conn[t])
    /\ Continue(t, "return", op[t])
    /\ UNCHANGED <<poolVars, envVars, conn, harnessVars, monitorVars>>

\* line 54: return_connection; then the call returns, raises, or goes on to VACUUM
Return(t) ==
    /\ pc[t] = "return"
    /\ LET g == return_connection(conn[t], available_connections, in_use_connections, closed)
       IN  /\ SetPool(g)
           /\ closed' = g.closed
    /\ conn' = [conn EXCEPT ![t] = None]
    /\ IF op[t].failed
       THEN Failure(t, op[t], "sqlite")
       ELSE IF op[t].kind = "cleanup_old_data"
            THEN Continue(t, "vacuum_get", op[t])
            ELSE Finish(t, Returned(t, op[t]))
    /\ UNCHANGED <<created, autocommit, dbVars, envVars, harnessVars, monitorVars>>

\* the batch of a poll round returns to render_current_status: line 98 is next;
\* a batch that raised ends the round (current_status.py lines 99-101)
RoundStored(t) ==
    /\ pc[t] = "return"
    /\ op[t].kind = "store_pod_data_batch"
    /\ LET g == return_connection(conn[t], available_connections, in_use_connections, closed)
       IN  /\ SetPool(g)
           /\ closed' = g.closed
    /\ conn' = [conn EXCEPT ![t] = None]
    /\ IF op[t].failed
       THEN Failure(t, op[t], "sqlite")
       ELSE /\ pc' = [pc EXCEPT ![t] = "observed"]
            /\ op' = [op EXCEPT ![t] = [NoOp EXCEPT !.kind = "render_current_status",
                                                    !.ns = op[t].ns,
                                                    !.names = op[t].names]]
            /\ returned' = Returned(t, op[t])
    /\ UNCHANGED <<created, autocommit, dbVars, envVars, harnessVars, monitorVars>>

\* mark_pods_inactive returns to render_current_status: the round is complete
RoundMarked(t) ==
    /\ op[t].kind = "mark_pods_inactive"
    /\ Return(t)

\* HistoryManager.close (lines 562-568), also run by __del__: close_all closes
\* the idle handles and the handles callers are using; closing a handle discards
\* the transaction it had open.  Handles are numbered as they are made, and the
\* guard keeps their number bounded.
Close ==
    /\ created < MaxHandles
    /\ LET g == close_all(available_connections, in_use_connections, closed)
       IN  /\ SetPool(g)
           /\ closed' = g.closed
           /\ IF wlock # None /\ wlock \in g.closed
              THEN /\ work' = db
                   /\ wlock' = None
                   /\ UNCHANGED db
              ELSE UNCHANGED dbVars
    /\ returned' = Nothing
    /\ UNCHANGED <<created, autocommit, envVars, pc, op, conn, harnessVars, monitorVars>>

\* the handle thread t works on is open
Live(t) == conn[t] \notin closed

StatementOnLive(t) == Live(t) /\ ExecInsert(t)

CommitOnLive(t) == Live(t) /\ Commit(t)

RollbackOnLive(t) == Live(t) /\ Rollback(t)

\* cursor.execute on a closed handle raises sqlite3.ProgrammingError: lines 40-44
StatementOnClosed(t) ==
    /\ pc[t] = "exec"
    /\ ~Live(t)
    /\ Fails(t)
    /\ UNCHANGED <<poolVars, dbVars, envVars, conn, harnessVars, monitorVars>>

\* conn.rollback() of line 42 on a closed handle raises, conn.commit() of line 53
\* raises in turn and is logged (55-56): the call raises
RollbackOnClosed(t) ==
    /\ pc[t] = "rollback"
    /\ ~Live(t)
    /\ conn' = [conn EXCEPT ![t] = None]
    /\ Failure(t, op[t], "closed")
    /\ UNCHANGED <<poolVars, dbVars, envVars, harnessVars, monitorVars>>

\* conn.commit() of line 53 on a closed handle raises and is logged (55-56): the
\* call returns normally, and what it wrote went with the handle
CommitOnClosed(t) ==
    /\ pc[t] = "commit"
    /\ ~Live(t)
    /\ conn' = [conn EXCEPT ![t] = None]
    /\ Finish(t, Returned(t, op[t]))
    /\ UNCHANGED <<poolVars, dbVars, envVars, harnessVars, monitorVars>>

\* a VACUUM error that reaches the caller of cleanup_old_data
VacuumFailedRaises(t, o) == Finish(t, Raised(t, [o EXCEPT !.vacuum = "failed"], "sqlite"))

\* lines 419-429: the VACUUM error is logged and the result is returned
VacuumFailed(t, o) == Finish(t, Returned(t, [o EXCEPT !.vacuum = "failed"]))

\* lines 412-414: a handle for VACUUM, switched to autocommit; none: nothing is done
VacuumGet(t) ==
    /\ pc[t] = "vacuum_get"
    /\ LET g == get_connection(available_connections, in_use_connections, created)
       IN  /\ SetPool(g)
           /\ created' = g.created
           /\ IF g.conn = None
              THEN /\ Finish(t, Returned(t, [op[t] EXCEPT !.vacuum = "no handle"]))
                   /\ UNCHANGED <<conn, autocommit>>
              ELSE /\ conn' = [conn EXCEPT ![t] = g.conn]
                   /\ autocommit' = autocommit \cup {g.conn}
                   /\ Continue(t, "vacuum", op[t])
    /\ UNCHANGED <<closed, dbVars, envVars, harnessVars, monitorVars>>

\* lines 415-420: VACUUM and PRAGMA optimize, then return_connection; VACUUM is
\* refused while another handle holds the write lock, and the except clause of
\* line 419 is entered with the handle still in use
Vacuum(t) ==
    /\ pc[t] = "vacuum"
    /\ \/ /\ wlock # None
          /\ UNCHANGED <<available_connections, in_use_connections, closed>>
          /\ VacuumFailed(t, op[t])
       \/ /\ wlock = None
          /\ LET g == return_connection(conn[t], available_connections,
                                        in_use_connections, closed)
             IN  /\ SetPool(g)
                 /\ closed' = g.closed
          /\ Finish(t, Returned(t, [op[t] EXCEPT !.vacuum = "done"]))
    /\ conn' = [conn EXCEPT ![t] = None]
    /\ UNCHANGED <<created, autocommit, dbVars, envVars, harnessVars, monitorVars>>

\* time passes; an instant is hours away from the next and a call is over
\* within seconds (the busy timeout of line 257 is 30 s)
Tick(D) ==
    /\ clock < D.instants
    /\ \A t \in Threads : pc[t] = "idle"
    /\ clock' = clock + 1
    /\ returned' = Nothing
    /\ UNCHANGED <<poolVars, dbVars, tz, pc, op, conn, harnessVars, monitorVars>>

\* the host's clock moves on while executemany (lines 245-253) is writing the
\* rows of a round; by how much does not matter to what the rows are stamped with
Elapse(t, D) ==
    /\ clock < D.instants
    /\ pc[t] = "exec"
    /\ op[t].kind = "store_pod_data_batch"
    /\ clock' = clock + 1
    /\ UNCHANGED <<poolVars, dbVars, tz, callVars, harnessVars, monitorVars>>

\* HistoryManager.__init__: the pool, then init_database through _get_connection,
\* which leaves one idle handle; the schema statements create nothing twice
Boot(D) ==
    /\ available_connections = <<1>>
    /\ in_use_connections = {}
    /\ created = 1
    /\ closed = {}
    /\ autocommit = {}
    /\ db \in {[EmptyStore EXCEPT !.journal_mode = j] : j \in D.journals}
    /\ wlock = None
    /\ work = db
    /\ clock = 1
    /\ tz \in D.offsets
    /\ pc = [t \in Threads |-> "idle"]
    /\ op = [t \in Threads |-> NoOp]
    /\ conn = [t \in Threads |-> None]
    /\ returned = Nothing
    /\ db_operations = <<>>
    /\ api_calls = <<>>
    /\ recorded = <<>>
    /\ held = [t \in Threads |-> {}]
    /\ stale = [t \in Threads |-> {}]
    /\ acquired = Tracking(<<>>)

\* the process ends, at any point, and a new one constructs HistoryManager on
\* the same store file: what was not committed is gone, the pool is new, and
\* init_database runs again through _get_connection
Construct ==
    /\ db' = init_database(db)
    /\ work' = db'
    /\ wlock' = None
    /\ available_connections' = <<1>>
    /\ in_use_connections' = {}
    /\ created' = 1
    /\ closed' = {}
    /\ autocommit' = {}
    /\ pc' = [t \in Threads |-> "idle"]
    /\ op' = [t \in Threads |-> NoOp]
    /\ conn' = [t \in Threads |-> None]
    /\ returned' = Returned("none", [NoOp EXCEPT !.kind = "__init__", !.before = db])
    /\ UNCHANGED <<envVars, harnessVars, monitorVars>>

\* a step of the call thread t is in
Step(t) ==
    \/ ExecInsert(t)
    \/ ExecUpdate(t)
    \/ ExecEvent(t)
    \/ ExecDeleteHistory(t)
    \/ ExecDeleteEvents(t)
    \/ ExecSelect(t)
    \/ Rollback(t)
    \/ Commit(t)
    \/ Return(t)
    \/ VacuumGet(t)
    \/ Vacuum(t)

Init == Boot(Wide)

Next ==
    \/ Call("poller", Wide)
    \/ Step("poller")

Spec == Init /\ [][Next]_vars

RetentionInit == Boot(Aged)

RetentionNext ==
    \/ Call("poller", Aged)
    \/ Step("poller")
    \/ Tick(Aged)

RetentionSpec == RetentionInit /\ [][RetentionNext]_vars

ConcInit == Boot(Narrow)

ConcNext ==
    \/ \E t \in Threads : Call(t, Narrow) \/ Step(t)
    \/ Tick(Narrow)

ConcSpec == ConcInit /\ [][ConcNext]_vars

QueryInit == Boot(Asked)

QueryNext ==
    \/ CallStore("ui", Asked)
    \/ CallBatch("ui", Asked)
    \/ CallHistorical("ui", Asked)
    \/ CallExport("ui", Asked)
    \/ ExecInsert("ui")
    \/ ExecSelect("ui")
    \/ ExecExport("ui")
    \/ Rollback("ui")
    \/ Commit("ui")
    \/ Return("ui")
    \/ Tick(Asked)

QuerySpec == QueryInit /\ [][QueryNext]_vars

LifecycleInit == Boot(Lifecycle)

LifecycleNext ==
    \/ CallStore("poller", Lifecycle)
    \/ CallBatch("poller", Lifecycle)
    \/ CallMark("poller", Lifecycle)
    \/ CallCleanup("poller", Lifecycle)
    \/ ExecInsert("poller")
    \/ ExecUpdate("poller")
    \/ ExecDeleteHistory("poller")
    \/ ExecDeleteEvents("poller")
    \/ Rollback("poller")
    \/ Commit("poller")
    \/ Return("poller")
    \/ VacuumGet("poller")
    \/ Vacuum("poller")
    \/ Tick(Lifecycle)

LifecycleSpec == LifecycleInit /\ [][LifecycleNext]_vars

HandleInit == Boot(Handled)

HandleNext ==
    \/ CallBatch("poller", Handled)
    \/ CallMark("poller", Handled)
    \/ CallHistorical("poller", Handled)
    \/ CallCleanup("poller", Handled)
    \/ ExecInsert("poller")
    \/ ExecUpdate("poller")
    \/ ExecSelect("poller")
    \/ ExecDeleteHistory("poller")
    \/ ExecDeleteEvents("poller")
    \/ ExecFails("poller")
    \/ CommitFails("poller")
    \/ CleanupCommitFails("poller")
    \/ RollbackFails("poller")
    \/ Rollback("poller")
    \/ Commit("poller")
    \/ Return("poller")
    \/ VacuumGet("poller")
    \/ Vacuum("poller")

HandleSpec == HandleInit /\ [][HandleNext]_vars

(***************************************************************************)
(* PerformanceMonitor (performance.py)                                     *)
(***************************************************************************)
\* deque(maxlen=100) of lines 37 and 38
maxlen == 100

\* the operations recorded under RateSpec: one more than a deque holds
MaxTicks == maxlen + 1

\* window_seconds of _calculate_rate (line 85)
window_seconds == 60

\* time.time() at the instants of the clock, in seconds: the second instant is
\* exactly one window before the third, the first is older
Seconds == <<0, 30, 90>>

time_time == Seconds[clock]

\* deque.append on a deque with maxlen: a full deque drops its oldest entry
deque_append(d, x) ==
    IF Len(d) >= maxlen THEN Append(Tail(d), x) ELSE Append(d, x)

InWindow(x, cutoff_time) == x >= cutoff_time

\* _calculate_rate (lines 85-94): len(recent_ops) / window_seconds, kept as the
\* pair of its numerator and denominator; an empty deque gives 0.0
calculate_rate(operations, current_time) ==
    LET cutoff_time == current_time - window_seconds
        recent_ops == SelectSeq(operations, LAMBDA x : InWindow(x, cutoff_time))
    IN  [count |-> Len(recent_ops), per |-> window_seconds]

\* what the monitor is asked while operations are recorded (RateSpec)
Rated ==
    [namespaces |-> { <<"p">> },
     names |-> { <<"a">> },
     pods |-> { <<"a">> },
     cpus |-> {1},
     apps |-> { <<>> },
     filters |-> { <<>> },
     journals |-> {"wal"},
     more |-> 0,
     items |-> {GoodA},
     hours |-> {24},
     days |-> {1},
     instants |-> 3,
     offsets |-> {0},
     calls |-> [t \in Threads |-> {}]]

\* record_db_operation (lines 75-78)
record_db_operation ==
    /\ Len(recorded) < MaxTicks
    /\ db_operations' = deque_append(db_operations, time_time)
    /\ recorded' = Append(recorded, time_time)
    /\ returned' = Nothing
    /\ UNCHANGED <<poolVars, dbVars, envVars, pc, op, conn, harnessVars, api_calls>>

\* record_system_metrics (lines 42-70) followed by get_current_metrics (lines
\* 96-99): the PerformanceMetrics just appended, without the psutil readings
record_system_metrics ==
    /\ returned' =
         [status |-> "ok", cause |-> "none", thread |-> "none",
          call |-> [kind |-> "record_system_metrics",
                    timestamp |-> time_time,
                    db_operations_per_sec |-> calculate_rate(db_operations, time_time),
                    k8s_api_calls_per_sec |-> calculate_rate(api_calls, time_time)]]
    /\ UNCHANGED <<poolVars, dbVars, envVars, pc, op, conn, harnessVars, monitorVars>>

RateInit == Boot(Rated)

RateNext ==
    \/ record_db_operation
    \/ record_system_metrics
    \/ Tick(Rated)

RateSpec == RateInit /\ [][RateNext]_vars

(***************************************************************************)
(* The ticks of a HistoryManager call: monitor_performance("database")     *)
(* around the operation (performance.py lines 164-198) and line 36 of      *)
(* _get_connection.  What the statements do to the store is left to the    *)
(* other specifications; here a statement succeeds or raises.              *)
(***************************************************************************)
\* the ticks recorded before a further call is made (TickSpec)
MaxRecorded == 6

TickedOps ==
    {"store_pod_data", "store_pod_data_batch", "mark_pods_inactive", "log_pod_event",
     "get_historical_data", "get_pod_timeline", "list_pod_names",
     "export_historical_data"}

\* list_pod_names (line 529) is the one of them without the decorator
Decorated == TickedOps \ {"list_pod_names"}

\* the operations that can raise while they normalise their arguments, before
\* _get_connection is entered: sanitize_pod_name (lines 147, 266, 301, 355),
\* normalize_and_validate (line 232), the format test (lines 443-444)
RejectsArguments ==
    {"store_pod_data", "store_pod_data_batch", "mark_pods_inactive", "log_pod_event",
     "get_pod_timeline", "export_historical_data"}

\* a call and the ticks it has recorded so far
Tracked(kind) == [kind |-> kind, rows |-> <<>>, failed |-> FALSE, ticks |-> 0]

OneMoreTick(o) == [o EXCEPT !.ticks = @ + 1]

\* get_performance_monitor().record_db_operation()
RecordTick ==
    /\ db_operations' = deque_append(db_operations, time_time)
    /\ recorded' = Append(recorded, time_time)

\* what callers pass to the eight operations (TickSpec)
Ticked ==
    [namespaces |-> { <<"p">> },
     names |-> { <<"a">> },
     pods |-> { <<"a">> },
     cpus |-> {1},
     apps |-> { <<>> },
     filters |-> { <<>> },
     journals |-> {"wal"},
     more |-> 0,
     items |-> {GoodA},
     hours |-> {24},
     days |-> {1},
     instants |-> 1,
     offsets |-> {0},
     arguments |-> {"valid", "invalid", "empty"},
     calls |-> [t \in Threads |-> TickedOps]]

\* the wrapper calls the operation (line 173), which normalises its arguments
\* and enters _get_connection (database.py lines 29-38): an empty batch returns
\* at once (lines 192-194) and the wrapper ticks (line 178); arguments that do
\* not normalise raise, and the wrapper passes the exception on (lines 192-195);
\* with a handle, line 36 ticks; without one the call fails before line 36
MonitoredCall(t, D) ==
    /\ pc[t] = "idle"
    /\ Len(recorded) < MaxRecorded
    /\ \E kind \in D.calls[t], args \in D.arguments :
         LET o == Tracked(kind)
             g == get_connection(available_connections, in_use_connections, created)
         IN  /\ args = "invalid" => kind \in RejectsArguments
             /\ args = "empty" => kind = "store_pod_data_batch"
             /\ IF args = "invalid"
                THEN /\ Finish(t, Raised(t, o, "validation"))
                     /\ UNCHANGED <<available_connections, in_use_connections, created,
                                    conn, db_operations, recorded>>
                ELSE IF args = "empty"
                THEN /\ RecordTick
                     /\ Finish(t, Returned(t, OneMoreTick(o)))
                     /\ UNCHANGED <<available_connections, in_use_connections, created,
                                    conn>>
                ELSE /\ SetPool(g)
                     /\ created' = g.created
                     /\ IF g.conn = None
                        THEN /\ Failure(t, o, "pool")
                             /\ UNCHANGED <<conn, db_operations, recorded>>
                        ELSE /\ conn' = [conn EXCEPT ![t] = g.conn]
                             /\ RecordTick
                             /\ Continue(t, "exec", OneMoreTick(o))
    /\ UNCHANGED <<closed, autocommit, dbVars, envVars, harnessVars, api_calls>>

\* the statements of the operation run inside the with block, or one of them raises
MonitoredBody(t) ==
    /\ pc[t] = "exec"
    /\ op[t].kind \in TickedOps
    /\ \E failed \in BOOLEAN : Continue(t, "return", [op[t] EXCEPT !.failed = failed])
    /\ UNCHANGED <<poolVars, dbVars, envVars, conn, harnessVars, monitorVars>>

\* the finally clause of _get_connection (lines 50-56): commit and
\* return_connection, or a commit that raises, which leaves the handle in use;
\* then the operation raises, or returns and the wrapper ticks (line 178)
MonitoredReturn(t) ==
    /\ pc[t] = "return"
    /\ op[t].kind \in TickedOps
    /\ \E committed \in BOOLEAN :
         IF committed
         THEN LET g == return_connection(conn[t], available_connections,
                                         in_use_connections, closed)
              IN  /\ SetPool(g)
                  /\ closed' = g.closed
         ELSE UNCHANGED <<available_connections, in_use_connections, closed>>
    /\ conn' = [conn EXCEPT ![t] = None]
    /\ IF op[t].failed
       THEN /\ Failure(t, op[t], "sqlite")
            /\ UNCHANGED <<db_operations, recorded>>
       ELSE IF op[t].kind \in Decorated
       THEN /\ RecordTick
            /\ Finish(t, Returned(t, OneMoreTick(op[t])))
       ELSE /\ Finish(t, Returned(t, op[t]))
            /\ UNCHANGED <<db_operations, recorded>>
    /\ UNCHANGED <<created, autocommit, dbVars, envVars, harnessVars, api_calls>>

TickInit == Boot(Ticked)

TickNext ==
    \/ \E t \in Threads : MonitoredCall(t, Ticked)
    \/ \E t \in Threads : MonitoredBody(t)
    \/ \E t \in Threads : MonitoredReturn(t)

TickSpec == TickInit /\ [][TickNext]_vars

(***************************************************************************)
(* KubernetesClient.get_pods (kubernetes_client.py lines 119-159) under    *)
(* tenacity's retry decorator                                              *)
(***************************************************************************)
\* stop_after_attempt(3), line 120
max_attempt_number == 3

\* what list_namespaced_pod (line 137) does on one attempt
Upstream == {"ok", "ApiException", "ConnectionError"}

\* the except clauses of get_pods (lines 147-159): whatever is raised inside
\* the try block leaves the function as KubernetesError
RaisedByGetPods(exc) == "KubernetesError"

\* retry_if_exception_type((ApiException, ConnectionError)), line 122, on the
\* exception that left the decorated function; KubernetesError derives from
\* Exception alone (logging_config.py line 93)
retry_if_exception_type(exc) == exc \in {"ApiException", "ConnectionError"}

\* stop_after_attempt(3)
stop_after_attempt(attempt_number) == attempt_number >= max_attempt_number

\* what the poller asks the cluster for (FetchSpec)
Fetched ==
    [namespaces |-> { <<"p">>, <<>> },
     names |-> { <<"a">> },
     pods |-> { <<"a">> },
     cpus |-> {1},
     apps |-> { <<>> },
     filters |-> { <<>> },
     journals |-> {"wal"},
     more |-> 0,
     items |-> {GoodA},
     hours |-> {24},
     days |-> {1},
     instants |-> 1,
     offsets |-> {0},
     observed |-> { <<>>, << <<"a">> >> },
     calls |-> [t \in Threads |-> {"get_pods"}]]

\* the caller calls get_pods: tenacity starts with attempt 1
get_pods(t, D) ==
    /\ pc[t] = "idle"
    /\ "get_pods" \in D.calls[t]
    /\ Len(api_calls) < MaxRecorded
    /\ \E ns \in D.namespaces :
         Continue(t, "attempt", [kind |-> "get_pods", ns |-> ns, attempt_number |-> 1,
                                 pods |-> <<>>])
    /\ UNCHANGED <<poolVars, dbVars, envVars, conn, harnessVars, monitorVars>>

RecordApiCall(d) == deque_append(d, time_time)

\* what tenacity does with an exception that left the decorated function: it
\* is passed on when the retry condition does not hold for it, RetryError is
\* raised when the last attempt is used up, and else one more attempt is made
AfterException(t, exc) ==
    IF ~retry_if_exception_type(exc)
    THEN Finish(t, [status |-> exc, cause |-> exc, thread |-> t, call |-> op[t]])
    ELSE IF stop_after_attempt(op[t].attempt_number)
    THEN Finish(t, [status |-> "RetryError", cause |-> exc, thread |-> t, call |-> op[t]])
    ELSE Continue(t, "attempt", [op[t] EXCEPT !.attempt_number = @ + 1])

\* one attempt: the wrapper of monitor_performance("kubernetes") runs the body
\* (lines 127-145): validate_namespace, record_api_call (line 134), the list
\* call; a result makes the wrapper record a second api call (performance.py
\* line 180) and is returned, an exception goes through the except clauses
Attempt(t, D) ==
    /\ pc[t] = "attempt"
    /\ IF ~NameIsValid(Strip(op[t].ns))
       THEN /\ AfterException(t, RaisedByGetPods("ValidationError"))
            /\ UNCHANGED api_calls
       ELSE \E outcome \in Upstream, pods \in D.observed :
              IF outcome = "ok"
              THEN /\ api_calls' = RecordApiCall(RecordApiCall(api_calls))
                   /\ Finish(t, [status |-> "ok", cause |-> "none", thread |-> t,
                                 call |-> [op[t] EXCEPT !.pods = pods]])
              ELSE /\ api_calls' = RecordApiCall(api_calls)
                   /\ AfterException(t, RaisedByGetPods(outcome))
    /\ UNCHANGED <<poolVars, dbVars, envVars, conn, harnessVars, db_operations, recorded>>

FetchInit == Boot(Fetched)

FetchNext ==
    \/ \E t \in Threads : get_pods(t, Fetched)
    \/ \E t \in Threads : Attempt(t, Fetched)

FetchSpec == FetchInit /\ [][FetchNext]_vars

ValueInit == Boot(Valued)

ValueNext ==
    \/ CallStore("poller", Valued)
    \/ CallBatch("poller", Valued)
    \/ ExecInsert("poller")
    \/ Rollback("poller")
    \/ Commit("poller")
    \/ Return("poller")

ValueSpec == ValueInit /\ [][ValueNext]_vars

CloseInit == Boot(Shut)

CloseNext ==
    \/ \E t \in Threads :
          \/ CallStore(t, Shut)
          \/ StatementOnLive(t)
          \/ StatementOnClosed(t)
          \/ CommitOnLive(t)
          \/ CommitOnClosed(t)
          \/ RollbackOnLive(t)
          \/ RollbackOnClosed(t)
          \/ Return(t)
    \/ Close

CloseSpec == CloseInit /\ [][CloseNext]_vars

PollInit == Boot(Polled)

PollNext ==
    \E t \in Threads :
        \/ RoundStore(t, Polled)
        \/ RoundStored(t)
        \/ RoundMark(t, Polled)
        \/ RoundMarked(t)
        \/ ExecInsert(t)
        \/ ExecUpdate(t)
        \/ Rollback(t)
        \/ Commit(t)

PollSpec == PollInit /\ [][PollNext]_vars

RoundInit == Boot(Rounds)

RoundNext ==
    \/ CallBatch("poller", Rounds)
    \/ ExecInsert("poller")
    \/ Elapse("poller", Rounds)
    \/ Rollback("poller")
    \/ Commit("poller")
    \/ Return("poller")
    \/ Tick(Rounds)

RoundSpec == RoundInit /\ [][RoundNext]_vars

ExportInit == Boot(Browsed)

ExportNext ==
    \/ CallStore("ui", Browsed)
    \/ CallExport("ui", Browsed)
    \/ ExecInsert("ui")
    \/ ExecExport("ui")
    \/ Commit("ui")
    \/ Return("ui")
    \/ Tick(Browsed)

ExportSpec == ExportInit /\ [][ExportNext]_vars

ListInit == Boot(Listing)

ListNext ==
    \/ CallStore("ui", Listing)
    \/ CallList("ui", Listing)
    \/ ExecInsert("ui")
    \/ ExecList("ui")
    \/ Commit("ui")
    \/ Return("ui")
    \/ Tick(Listing)

ListSpec == ListInit /\ [][ListNext]_vars

RestartInit == Boot(Browsed)

RestartNext ==
    \/ CallStore("poller", Browsed)
    \/ CallEvent("poller", Browsed)
    \/ ExecInsert("poller")
    \/ ExecEvent("poller")
    \/ Commit("poller")
    \/ Return("poller")
    \/ Construct

RestartSpec == RestartInit /\ [][RestartNext]_vars

FaultInit == Boot(Faulty)

FaultNext ==
    \/ CallStore("poller", Faulty)
    \/ CallBatch("poller", Faulty)
    \/ CallMark("poller", Faulty)
    \/ CallEvent("poller", Faulty)
    \/ CallHistorical("poller", Faulty)
    \/ CallTimeline("poller", Faulty)
    \/ CallList("poller", Faulty)
    \/ CallExport("poller", Faulty)
    \/ CallStats("poller", Faulty)
    \/ ExecInsert("poller")
    \/ ExecUpdate("poller")
    \/ ExecEvent("poller")
    \/ ExecSelect("poller")
    \/ ExecTimeline("poller")
    \/ ExecList("poller")
    \/ ExecExport("poller")
    \/ ExecStats("poller")
    \/ ExecFails("poller")
    \/ CommitFails("poller")
    \/ Rollback("poller")
    \/ Commit("poller")
    \/ Return("poller")

FaultSpec == FaultInit /\ [][FaultNext]_vars

UpkeepInit == Boot(Upkeep)

UpkeepNext ==
    \/ \E t \in Threads :
          \/ CallStore(t, Upkeep)
          \/ CallEvent(t, Upkeep)
          \/ CallCleanup(t, Upkeep)
          \/ ExecInsert(t)
          \/ ExecEvent(t)
          \/ ExecDeleteHistory(t)
          \/ ExecDeleteEvents(t)
          \/ Rollback(t)
          \/ Commit(t)
          \/ Return(t)
          \/ VacuumGet(t)
          \/ Vacuum(t)
    \/ Tick(Upkeep)

UpkeepSpec == UpkeepInit /\ [][UpkeepNext]_vars

(***************************************************************************)
(* PoolSpec: threads that call the pool's methods themselves.  A caller    *)
(* may return a handle it was given (held), return again one it has        *)
(* already returned (stale), or close the pool.                            *)
(***************************************************************************)
\* sqlite3.connect (line 256) raised: the file cannot be opened
ConnectError == -1

\* the run of acquires the pool bound speaks of ends with the first release
AfterRelease(inuse) ==
    IF inuse = in_use_connections
    THEN UNCHANGED acquired
    ELSE acquired' = IF inuse = {} THEN Tracking(<<>>) ELSE NotTracking

Note(c) ==
    IF acquired.fresh
    THEN acquired' = Tracking(Append(acquired.outcomes, c))
    ELSE UNCHANGED acquired

PoolGet(t) ==
    LET g == get_connection(available_connections, in_use_connections, created) IN
    /\ g.created <= MaxHandles
    /\ Len(acquired.outcomes) <= max_connections
    /\ SetPool(g)
    /\ created' = g.created
    /\ held' = IF g.conn = None THEN held ELSE [held EXCEPT ![t] = @ \cup {g.conn}]
    /\ Note(g.conn)
    /\ UNCHANGED <<closed, autocommit, dbVars, envVars, callVars, stale, monitorVars>>

\* get_connection reached sqlite3.connect and it raised: nothing was added to the pool
PoolConnectFails(t) ==
    /\ available_connections = <<>>
    /\ CanCreate(Cardinality(in_use_connections))
    /\ Len(acquired.outcomes) <= max_connections
    /\ Note(ConnectError)
    /\ UNCHANGED <<poolVars, dbVars, envVars, callVars, held, stale, monitorVars>>

PoolReturn(t) ==
    \E c \in held[t] \cup stale[t] :
      LET r == return_connection(c, available_connections, in_use_connections, closed) IN
      /\ available_connections' = r.available
      /\ in_use_connections' = r.in_use
      /\ closed' = r.closed
      /\ held' = [held EXCEPT ![t] = @ \ {c}]
      /\ stale' = [stale EXCEPT ![t] = @ \cup {c}]
      /\ AfterRelease(r.in_use)
      /\ UNCHANGED <<created, autocommit, dbVars, envVars, callVars, monitorVars>>

PoolCloseAll(t) ==
    LET r == close_all(available_connections, in_use_connections, closed) IN
    /\ available_connections' = r.available
    /\ in_use_connections' = r.in_use
    /\ closed' = r.closed
    /\ AfterRelease(r.in_use)
    /\ UNCHANGED <<created, autocommit, dbVars, envVars, callVars, held, stale, monitorVars>>

\* DatabaseConnectionPool.__init__
PoolInit ==
    /\ available_connections = <<>>
    /\ in_use_connections = {}
    /\ created = 0
    /\ closed = {}
    /\ autocommit = {}
    /\ db = EmptyStore
    /\ wlock = None
    /\ work = EmptyStore
    /\ clock = 1
    /\ tz = 0
    /\ pc = [t \in Threads |-> "idle"]
    /\ op = [t \in Threads |-> NoOp]
    /\ conn = [t \in Threads |-> None]
    /\ returned = Nothing
    /\ db_operations = <<>>
    /\ api_calls = <<>>
    /\ recorded = <<>>
    /\ held = [t \in Threads |-> {}]
    /\ stale = [t \in Threads |-> {}]
    /\ acquired = Tracking(<<>>)

PoolNext ==
    \E t \in Threads :
      \/ PoolGet(t)
      \/ PoolConnectFails(t)
      \/ PoolReturn(t)
      \/ PoolCloseAll(t)

PoolSpec == PoolInit /\ [][PoolNext]_vars

(***************************************************************************)
(* Properties                                                              *)
(***************************************************************************)
Idle == \A t \in Threads : pc[t] = "idle"

Ids(rows) == {r.id : r \in rows}

\* C1: a store_pod_data_batch call that raised has left none of the rows it
\* inserted in the committed store, whatever calls were made before it.
C1_FailedBatchPersistsNothing ==
    (returned.status = "DatabaseError" /\ returned.call.kind = "store_pod_data_batch")
        => Ids(db.history) \cap returned.call.ids = {}

\* C2: the result set of a read made by one thread while another thread's batch
\* of N rows is in progress holds none or all N of the rows of that batch.
C2_ReadSeesWholeRounds ==
    \A u \in Threads, w \in Threads :
        (/\ pc[u] = "return"
         /\ op[u].kind = "get_historical_data"
         /\ op[w].kind = "store_pod_data_batch")
            => LET seen == Cardinality(op[u].ids \cap op[w].ids)
               IN  seen = 0 \/ seen = Len(op[w].items)

\* C3: whenever no HistoryManager operation is in progress, every handle the
\* operations took has been returned: the pool's in-use set is empty.
C3_NoHandleLeak == Idle => in_use_connections = {}

\* C4: starting with nothing in use and with no release in between, every
\* acquire made while fewer than max_connections handles are out returns an open
\* handle different from those already out (unless sqlite3.connect itself
\* raises), and every acquire made once max_connections are out returns None at
\* once: the exhaustion outcome, which is neither a handle nor a storage error.
C4_PoolBound ==
    acquired.fresh =>
        \A i \in 1..Len(acquired.outcomes) :
            LET o == acquired.outcomes
                out == {j \in 1..(i - 1) : o[j] \notin {None, ConnectError}}
            IN  IF Cardinality(out) < max_connections
                THEN \/ o[i] = ConnectError
                     \/ /\ o[i] # None
                        /\ o[i] \notin closed
                        /\ \A j \in out : o[j] # o[i]
                ELSE o[i] = None

\* max_connections acquires each gave a handle and the next one gave None
C4_Saturated ==
    /\ acquired.fresh
    /\ Len(acquired.outcomes) = max_connections + 1
    /\ \A i \in 1..max_connections : acquired.outcomes[i] \notin {None, ConnectError}
    /\ acquired.outcomes[max_connections + 1] = None

\* C5: under any interleaving of get_connection, return_connection (also of a
\* handle already returned, or after close_all) and close_all, idle plus in-use
\* handles number at most max_connections, no handle is both idle and in use, no
\* handle is twice in the idle deque, and no handle is held by two callers.
C5_PoolBookkeeping ==
    /\ Len(available_connections) + Cardinality(in_use_connections) <= max_connections
    /\ SeqRange(available_connections) \cap in_use_connections = {}
    /\ Cardinality(SeqRange(available_connections)) = Len(available_connections)
    /\ \A t \in Threads, u \in Threads : t # u => held[t] \cap held[u] = {}

RowById(rows, id) == CHOOSE r \in rows : r.id = id

MarkReturned == returned.status = "ok" /\ returned.call.kind = "mark_pods_inactive"

\* C6: when mark_pods_inactive(ns, S) has returned, the store holds the rows it
\* held when the call was made; those that were active in ns with a pod_name
\* outside S (names compared as stored, i.e. after sanitize_pod_name) are
\* inactive with a deletion_timestamp, every other Snapshot row (active in ns
\* with a name in S, of another namespace, already inactive) is the same in
\* every field, and so is every Event row.
C6_DeactivationPostcondition ==
    MarkReturned =>
        LET c == returned.call
            old == c.before.history
        IN  /\ Ids(db.history) = Ids(old)
            /\ Cardinality(db.history) = Cardinality(old)
            /\ \A r \in old :
                 LET s == RowById(db.history, r.id)
                 IN  IF r.namespace = c.ns /\ r.is_active /\ r.pod_name \notin c.names
                     THEN ~s.is_active /\ s.deletion_timestamp # NULL
                     ELSE s = r
            /\ db.events = c.before.events

\* the call deactivated a row and left another active row of the namespace alone
C6_SomeKeptSomeDeactivated ==
    /\ MarkReturned
    /\ returned.call.names # {}
    /\ \E r \in returned.call.before.history, k \in returned.call.before.history :
         /\ r.namespace = returned.call.ns /\ r.is_active
         /\ r.pod_name \notin returned.call.names
         /\ k.namespace = returned.call.ns /\ k.is_active
         /\ k.pod_name \in returned.call.names

\* C7: when mark_pods_inactive(ns, []) has returned (a missing list is turned
\* into [] at line 266), no Snapshot row of ns is active.
C7_EmptyListDeactivatesAll ==
    (MarkReturned /\ returned.call.names = {})
        => \A r \in db.history : r.namespace = returned.call.ns => ~r.is_active

\* the namespace held two active rows of different pod names when the call was made
C7_TwoNamesDeactivated ==
    /\ MarkReturned
    /\ returned.call.names = {}
    /\ \E r \in returned.call.before.history, k \in returned.call.before.history :
         /\ r.namespace = returned.call.ns /\ r.is_active
         /\ k.namespace = returned.call.ns /\ k.is_active
         /\ r.pod_name # k.pod_name

StoreReturned == returned.status = "ok" /\ returned.call.kind = "store_pod_data"

\* what a store_pod_data call that returned has done to the store it was made on
StoreAddedOneRow ==
    StoreReturned =>
        \E r \in db.history :
            /\ r.id \notin Ids(returned.call.before.history)
            /\ r.is_active
            /\ r.namespace = returned.call.ns
            /\ r.pod_name = returned.call.items[1].pod_name
            /\ db.history = returned.call.before.history \cup {r}

\* what a step may do to the Snapshot rows already stored
RowsOnlyDeactivated ==
    \A r \in db.history :
        IF r.id \in Ids(db'.history)
        THEN LET s == RowById(db'.history, r.id)
             IN  [s EXCEPT !.is_active = r.is_active,
                           !.deletion_timestamp = r.deletion_timestamp] = r
        ELSE \E t \in Threads : op[t].kind = "cleanup_old_data"

\* C8: a store_pod_data call that returned has added exactly one new row, active,
\* for its (namespace, pod_name), and kept every row the store held, also rows
\* of the same pod; and no step of any operation changes a field of a stored row
\* other than is_active and deletion_timestamp, or removes a row unless it is a
\* step of cleanup_old_data.
C8_AppendOnly == [][StoreAddedOneRow' /\ RowsOnlyDeactivated]_vars

\* store_pod_data returned for a pod that already had a row
C8_SecondRowOfSamePod ==
    /\ StoreReturned
    /\ \E r \in returned.call.before.history :
         /\ r.namespace = returned.call.ns
         /\ r.pod_name = returned.call.items[1].pod_name

CleanupReturned == returned.status = "ok" /\ returned.call.kind = "cleanup_old_data"

\* C9: cleanup_old_data(d) reports the retention e = max(1, min(365, d)) and
\* leaves of the store it was called on what its two DELETE statements leave
\* when given e.
C9_RetentionClamp ==
    CleanupReturned =>
        LET c == returned.call
            e == IF c.days < 1 THEN 1 ELSE IF c.days > 365 THEN 365 ELSE c.days
        IN  /\ c.retention = e
            /\ db.history = DeleteHistory(c.before, now, e).history
            /\ db.events = DeleteEvents(c.before, now, e).events

\* cleanup_old_data(-5) removed a row older than one day and kept a younger one
C9_NegativeDaysActAsOne ==
    /\ CleanupReturned
    /\ returned.call.days = -5
    /\ returned.call.n = 1
    /\ db.history # {}

\* C10: when cleanup_old_data has returned, the Snapshot and Event rows left are
\* those of the store it was called on whose timestamp is not older than now
\* minus the effective retention, unchanged and whether active or not, and the
\* two counts it returns are the numbers of rows removed.
C10_RetentionExact ==
    CleanupReturned =>
        LET c == returned.call
            cutoff == now - c.retention * 24
        IN  /\ db.history = {r \in c.before.history : r.timestamp >= cutoff}
            /\ db.events = {r \in c.before.events : r.timestamp >= cutoff}
            /\ c.n = Cardinality(c.before.history) - Cardinality(db.history)
            /\ c.m = Cardinality(c.before.events) - Cardinality(db.events)

\* one Snapshot row and one Event row were removed and a Snapshot row was kept
C10_OneOfEachRemoved ==
    /\ CleanupReturned
    /\ returned.call.n = 1
    /\ returned.call.m = 1
    /\ db.history # {}

\* C11: a cleanup_old_data call whose VACUUM block failed, or found no handle to
\* run on, returns normally; the counts it returns are the numbers of Snapshot
\* and Event rows its DELETE statements removed, and none of those rows is in
\* the committed store.
C11_CompactionNonFatal ==
    (returned.call.kind = "cleanup_old_data"
        /\ returned.call.vacuum \in {"failed", "no handle"})
        => LET c == returned.call
               gone == Expired(c.before.history, now, c.retention)
               egone == Expired(c.before.events, now, c.retention)
           IN  /\ returned.status = "ok"
               /\ c.n = Cardinality(gone)
               /\ c.m = Cardinality(egone)
               /\ Ids(db.history) \cap Ids(gone) = {}
               /\ Ids(db.events) \cap Ids(egone) = {}

\* VACUUM was refused after the call had removed a Snapshot row and an Event row
C11_VacuumRefusedAfterDelete ==
    /\ returned.call.kind = "cleanup_old_data"
    /\ returned.call.vacuum = "failed"
    /\ returned.call.n = 1
    /\ returned.call.m = 1

HistoricalReturned == returned.status = "ok" /\ returned.call.kind = "get_historical_data"

\* C12: the frame get_historical_data(ns, h, app) returns at instant T holds
\* exactly the Snapshot rows of ns (and of app_name app when one is given) that
\* were captured at or after T - h hours, whichever operation wrote them, newest
\* first, and at most the 10000 newest of them.
C12_TimeWindow ==
    HistoricalReturned =>
        LET c == returned.call
            want == {r \in c.before.history :
                        /\ r.namespace = c.ns
                        /\ c.app # <<>> => r.app_name = Strip(c.app)
                        /\ r.captured >= now - c.hours}
        IN  /\ Len(c.rows) = Min(Cardinality(want), HistoricalLimit)
            /\ SeqRange(c.rows) \subseteq want
            /\ Cardinality(SeqRange(c.rows)) = Len(c.rows)
            /\ \A i \in 1..Len(c.rows), j \in 1..Len(c.rows) :
                 i < j => c.rows[i].captured >= c.rows[j].captured
            /\ \A r \in want \ SeqRange(c.rows), k \in 1..Len(c.rows) :
                 r.captured <= c.rows[k].captured

\* the pod names Kubernetes allows (the pattern of validation.py line 211)
WellFormedName(name) ==
    /\ name # <<>>
    /\ \A k \in 1..Len(name) :
         name[k] \in SeqRange(LowerCase) \cup {"0", "1", "2", "3", "4", "5", "6", "7", "8", "9", "-"}

\* C16: an ingestion call (single or batch) holds a handle only if every row it
\* carries has a well-formed pod name, a pod_type of driver or executor and no
\* negative numeric field, and an export call holds a handle only if its format
\* is supported: anything else is rejected before a handle is acquired.
C16_ValidatedBeforeStorage ==
    \A t \in Threads :
        conn[t] # None =>
            /\ op[t].kind \in {"store_pod_data", "store_pod_data_batch"} =>
                 \A k \in 1..Len(op[t].items) :
                     /\ WellFormedName(op[t].items[k].pod_name)
                     /\ ChecksPass(op[t].items[k])
            /\ op[t].kind = "export_historical_data" => op[t].format \in ExportFormats

IngestKinds == {"store_pod_data", "store_pod_data_batch", "mark_pods_inactive", "log_pod_event"}

\* C13: a store_pod_data, store_pod_data_batch, mark_pods_inactive or
\* log_pod_event call that returned normally has its write in the committed
\* store (one row per item, the Event row, no row left for the UPDATE to match):
\* whichever step failed (the handle, the statement, the commit), the call raised.
C13_WriteFailuresReported ==
    (returned.status = "ok" /\ returned.call.kind \in IngestKinds) =>
        LET c == returned.call
        IN  /\ c.kind \in {"store_pod_data", "store_pod_data_batch"} =>
                 /\ Cardinality(c.ids) = Len(c.items)
                 /\ c.ids \subseteq Ids(db.history)
            /\ c.kind = "log_pod_event" =>
                 /\ c.ids # {}
                 /\ c.ids \subseteq Ids(db.events)
            /\ c.kind = "mark_pods_inactive" => MarkMatches(db, c.ns, c.names) = {}

QueryKinds ==
    {"get_historical_data", "get_pod_timeline", "list_pod_names", "export_historical_data"}

\* C14: a get_historical_data, get_pod_timeline, list_pod_names or
\* export_historical_data call during which the store failed or no handle could
\* be obtained raises DatabaseError; it does not return a result.
C14_QueryFailuresPropagate ==
    (returned.call.kind \in QueryKinds /\ returned.cause # "none")
        => returned.status = "DatabaseError"

StatsReturned == returned.call.kind = "get_database_stats"

\* C15: get_database_stats always returns; when a step failed (pool exhaustion
\* included) the result has health_status 'error' and an error description, and
\* otherwise health_status is 'healthy' exactly when the store's journal mode is
\* the write-ahead log.
C15_StatsDegrade ==
    StatsReturned =>
        LET c == returned.call
        IN  /\ returned.status = "ok"
            /\ IF returned.cause # "none"
               THEN c.health_status = "error" /\ c.error # "none"
               ELSE /\ c.error = "none"
                    /\ c.health_status = "healthy" <=> db.journal_mode = "wal"

\* the pool was exhausted when get_database_stats asked for a handle
C15_StatsOnExhaustedPool ==
    /\ StatsReturned
    /\ returned.cause = "pool"
    /\ Cardinality(in_use_connections) = max_connections

ExportReturned == returned.status = "ok" /\ returned.call.kind = "export_historical_data"

BatchReturned ==
    /\ returned.status = "ok"
    /\ returned.call.kind = "store_pod_data_batch"
    /\ returned.call.items # <<>>

\* C18: the rows a store_pod_data_batch call of N >= 1 tuples wrote are N rows
\* with one and the same timestamp, the host's clock reading of before the first
\* of them was written.
C18_SharedRoundTimestamp ==
    BatchReturned =>
        LET c == returned.call
            rows == {r \in db.history : r.id \in c.ids}
        IN  /\ Cardinality(rows) = Len(c.items)
            /\ \A r \in rows, q \in rows : r.timestamp = q.timestamp
            /\ \A r \in rows : r.timestamp <= r.captured + tz
            /\ \E r \in rows : r.timestamp = c.ts

\* a round of two rows returned, the second row written at a later clock reading
\* than the first
C18_ClockMovedWithinRound ==
    /\ BatchReturned
    /\ \E r \in db.history, q \in db.history :
         /\ r.id \in returned.call.ids /\ q.id \in returned.call.ids
         /\ r.captured < q.captured

ConstructReturned == returned.status = "ok" /\ returned.call.kind = "__init__"

\* C19: constructing HistoryManager on a store file leaves every Snapshot and
\* Event row it held, and the AUTOINCREMENT sequences, as they were, and the
\* schema after any construction is the schema after the first.
C19_SchemaSetupIdempotent ==
    ConstructReturned =>
        /\ db.history = returned.call.before.history
        /\ db.events = returned.call.before.events
        /\ db.hseq = returned.call.before.hseq
        /\ db.eseq = returned.call.before.eseq
        /\ db.schema = returned.call.before.schema
        /\ db.schema = SeqRange(SchemaObjects)

\* HistoryManager was constructed on a store file holding Snapshot and Event rows
C19_RestartOnFilledStore ==
    /\ ConstructReturned
    /\ returned.call.before.history # {}
    /\ returned.call.before.events # {}

ListReturned ==
    /\ returned.status = "ok"
    /\ returned.cause = "none"
    /\ returned.call.kind = "list_pod_names"

\* C20: list_pod_names(ns) returns every pod name that has a Snapshot row in ns,
\* each once, a name whose latest row in ns is newer before a name whose latest
\* row in ns is older.
C20_PodNameListing ==
    (ListReturned /\ returned.call.ns # NULL) =>
        LET c == returned.call
            mine == {r \in c.before.history : r.namespace = Strip(c.ns)}
            latest(name) ==
                CHOOSE x \in {r.timestamp : r \in {q \in mine : q.pod_name = name}} :
                    \A r \in mine : r.pod_name = name => r.timestamp <= x
        IN  /\ SeqRange(c.rows) = {r.pod_name : r \in mine}
            /\ Cardinality(SeqRange(c.rows)) = Len(c.rows)
            /\ \A i \in 1..Len(c.rows), j \in 1..Len(c.rows) :
                 i < j => latest(c.rows[i]) >= latest(c.rows[j])

\* two names were listed, the one that sorts second first: its row in the
\* namespace is newer than the first and older than the second row of the other
\* name, whose second row is of another namespace
C20_LatestFirstNotAlphabetical ==
    /\ ListReturned
    /\ returned.call.ns # NULL
    /\ returned.call.rows = << <<"b", "_">>, <<"a">> >>
    /\ \E r \in returned.call.before.history, q \in returned.call.before.history,
          x \in returned.call.before.history :
         /\ r.pod_name = <<"a">> /\ q.pod_name = <<"b", "_">> /\ x.pod_name = <<"a">>
         /\ r.namespace = q.namespace /\ x.namespace # q.namespace
         /\ r.timestamp < q.timestamp /\ q.timestamp < x.timestamp

IngestReturned ==
    /\ returned.status = "ok"
    /\ returned.call.kind \in {"store_pod_data", "store_pod_data_batch"}

LifecyclePair(rows) ==
    \A r \in rows : (~r.is_active) <=> (r.deletion_timestamp # NULL)

\* C21: in every state, committed or inside a transaction, a Snapshot row is
\* inactive exactly if it has a deletion_timestamp, and the rows a store_pod_data
\* or store_pod_data_batch call that returned has written have none.
C21_LifecyclePair ==
    /\ LifecyclePair(db.history)
    /\ LifecyclePair(work.history)
    /\ IngestReturned =>
         \A r \in db.history :
            r.id \in returned.call.ids => r.is_active /\ r.deletion_timestamp = NULL

\* a cleanup has returned that removed a row and left a deactivated one
C21_DeactivatedRowAfterCleanup ==
    /\ CleanupReturned
    /\ returned.call.before.history # db.history
    /\ \E r \in db.history : ~r.is_active /\ r.deletion_timestamp # NULL

\* what a step may do to a Snapshot row that is inactive
InactiveRowsKept ==
    \A r \in db.history :
        (~r.is_active /\ r.id \in Ids(db'.history)) => RowById(db'.history, r.id) = r

\* the rows an ingestion call that returned has written are active, those of the
\* same pod the store held before are as they were
ReingestedActive ==
    IngestReturned =>
        /\ \A r \in db.history : r.id \in returned.call.ids => r.is_active
        /\ \A r \in returned.call.before.history : ~r.is_active => r \in db.history

\* C22: no step makes an inactive Snapshot row active again or changes its
\* deletion_timestamp; when its pod name is ingested again the new rows are
\* active and the old row stays as it was.
C22_DeactivatedOnce == [][InactiveRowsKept /\ ReingestedActive']_vars

\* a pod was deactivated, ingested again and deactivated again by a later call:
\* the first row has the earlier deletion_timestamp
C22_SecondMarkKeptFirstStamp ==
    /\ MarkReturned
    /\ \E r \in db.history, q \in db.history :
         /\ r.namespace = q.namespace /\ r.pod_name = q.pod_name
         /\ ~r.is_active /\ ~q.is_active
         /\ r.deletion_timestamp # NULL /\ q.deletion_timestamp # NULL
         /\ r.deletion_timestamp[1] <= q.captured
         /\ r.deletion_timestamp[1] < q.deletion_timestamp[1]

\* C23: when the mark_pods_inactive call of a poll round for namespace ns with
\* observed names S has returned, the pod names with an active Snapshot row in ns
\* are exactly S, whichever thread ran the round and whatever other rounds ran
\* meanwhile; stated for the rounds at whose end no other round is under way.
C23_PollRoundOutcome ==
    (MarkReturned /\ Idle) =>
        {r.pod_name : r \in {q \in db.history :
                                q.namespace = returned.call.ns /\ q.is_active}}
            = returned.call.names

\* C24: in every state no handle of the pool's idle set has an open transaction,
\* whether the call that used it last succeeded, failed in a statement, or failed
\* in commit or in rollback.
C24_IdleHandlesHaveNoTransaction ==
    \A k \in 1..Len(available_connections) : wlock # available_connections[k]

\* a call whose rollback failed has put its handle back into the idle set
C24_IdleAfterFailedRollback ==
    /\ returned.status = "DatabaseError"
    /\ returned.cause = "rollback"
    /\ available_connections # <<>>
    /\ in_use_connections = {}

\* C25: however close is interleaved with the calls, no thread is at a
\* statement, a commit or a rollback with a handle that has been closed, no
\* closed handle is in the idle deque, and none is in the in-use set, where
\* get_connection puts the handles it hands out.
C25_NoUseAfterClose ==
    /\ \A t \in Threads :
         pc[t] \in {"exec", "commit", "rollback"} => conn[t] \notin closed
    /\ SeqRange(available_connections) \cap closed = {}
    /\ in_use_connections \cap closed = {}

\* C26: in every state every persisted Snapshot row has pod_type driver or
\* executor and a cpu_request that is a number not below 0 (the column stands
\* for the six resource columns and container_restarts, which carry the same
\* CHECK), whatever was passed to store_pod_data or store_pod_data_batch.
C26_StoredValues ==
    \A r \in db.history :
        /\ r.pod_type \in {"driver", "executor"}
        /\ r.cpu_request # NaN
        /\ r.cpu_request >= 0

\* the operations recorded in the trailing window before instant T
TrailingCount(T) ==
    Cardinality({i \in 1..Len(recorded) :
                    recorded[i] >= T - window_seconds /\ recorded[i] <= T})

\* C27: at every instant T and for any number of recorded operations, the rate
\* the monitor computes is the number of operations recorded in the 60 seconds
\* before T, divided by 60, also when more than 100 were recorded in them.
C27_SlidingWindowCount ==
    returned.call.kind = "record_system_metrics"
        => returned.call.db_operations_per_sec =
               [count |-> TrailingCount(returned.call.timestamp), per |-> 60]

\* C28: every call of one of the eight ingestion and query operations that has
\* ended, normally or with an exception, has recorded exactly one tick in the
\* performance monitor.
C28_OneTickPerCall ==
    (returned.thread \in Threads /\ returned.call.kind \in TickedOps)
        => returned.call.ticks = 1

\* C29: whichever of store_pod_data and store_pod_data_batch wrote it, and
\* whatever the offset of the host's local time from UTC, a Snapshot row carries
\* as its timestamp the instant it was written at, in the time base of the
\* cutoffs of get_historical_data and cleanup_old_data and of the
\* deletion_timestamp of mark_pods_inactive (CURRENT_TIMESTAMP, UTC).
C29_SingleTimeBase ==
    \A r \in db.history : r.timestamp = r.captured

\* C30: a get_pods call whose list call raised ApiException or ConnectionError
\* raises to its caller only after the third attempt has failed, and a call
\* that returns pods has made at most three attempts.
C30_PollerRetry ==
    returned.call.kind = "get_pods" =>
        /\ returned.call.attempt_number <= max_attempt_number
        /\ returned.cause \in {"ApiException", "ConnectionError", "KubernetesError"}
               /\ NameIsValid(Strip(returned.call.ns))
               => returned.call.attempt_number = max_attempt_number

====
